---- MODULE Spec2Model ----
(***************************************************************************)
(* Blood donation management API: the matching engine                      *)
(* (services/matching_service.py) over the donor store and the request     *)
(* store (repositories/*.py).                                              *)
(*                                                                         *)
(* A donor is modelled by the fields the code reads: id, blood_group,      *)
(* city, contact_number; a blood request by id, blood_group, city,         *)
(* urgency, status.  The other columns (names, email, hospital,            *)
(* created_at) are                                                         *)
(* copied into the output or used for ordering only: created_at grows with *)
(* the insertion order, so a store is a sequence in insertion order.       *)
(* Scores are the integers 40, 20, 30, ... of the float literals 40.0, ... *)
(*                                                                         *)
(* One operation runs at a time: it reads and writes the stores, leaves    *)
(* its result in `result`, and Return hands the result to the caller.  The *)
(* specifications share the state:                                         *)
(*   SpecPure            the compatibility model and the scorer            *)
(*   SpecDonors          request -> donors, over the donor stores          *)
(*   SpecRequests        donor -> requests, over the request stores        *)
(*   SpecFinders         both finders over stores of both kinds            *)
(*   SpecStatistics      get_matching_statistics                           *)
(*   SpecFaults          the engine over stores whose reads may fail       *)
(*   SpecApi             the HTTP endpoints of the by-id finders           *)
(*   SpecRequestService  create, update, fulfill, delete of blood requests *)
(*   SpecDonorService    create_donor                                      *)
(*   SpecEngine          every operation of the engine, next to writes     *)
(*   SpecScores          the scorer, directly and through the donor finder *)
(*   SpecRequestOverlap  overlapping update and fulfill of a blood request *)
(*   SpecDonorOverlap    overlapping create_donor and update_donor         *)
(*   SpecFinderOverlap   find_matching_donors overlapped by update_donor   *)
(*   SpecStatisticsOverlap  the statistics overlapped by donor writes       *)
(*   SpecTermination     the finders and the statistics among writers,     *)
(*                       with the store calls of the engine returning      *)
(***************************************************************************)
EXTENDS Integers, Sequences, FiniteSets, TLC

VARIABLES
    donors,      \* table donors, in insertion order
    requests,    \* table blood_requests, in insertion order
    requestSeq,  \* sqlite_sequence of blood_requests: the largest id ever given
    donorSeq,    \* sqlite_sequence of donors: the largest id ever given
    groupOrder,  \* the order in which this process iterates a set of blood groups
    call,        \* the engine operation in progress, with its arguments
    result       \* what that operation returned or raised

vars == <<donors, requests, requestSeq, donorSeq, groupOrder, call, result>>

----------------------------------------------------------------------------
(* Bounds of the model *)

MaxDonors == 2
MaxRequests == 2
MaxRecords == 3
MaxCallers == 2
MaxOverlapRecords == 1

(* Input domains *)

BloodGroups == {"A+", "A-", "B+", "B-", "AB+", "AB-", "O+", "O-"}
UrgencyLevels == {"Low", "Medium", "High", "Critical"}
Statuses == {"Active", "Fulfilled"}

\* strings handed to the compatibility model, canonical or not
BloodGroupInputs == BloodGroups \cup {"X+", "", "o+"}

\* city strings; two of them differ in letter case only
Cities == {"Delhi", "delhi", "Mumbai"}
RequestCities == {"Delhi", "Mumbai"}

\* blood groups and urgencies of the records put into the stores
DonorSideGroups == {"O-", "A+", "AB+"}
RequestSideGroups == {"O-", "A+"}
StoreUrgencies == {"Critical", "Low"}

\* iteration orders of a set of blood-group strings (string hashing is
\* seeded per process, so the order is fixed in a process and differs
\* between processes)
TableOrder == <<"A+", "A-", "B+", "B-", "AB+", "AB-", "O+", "O-">>
GroupOrders ==
    { TableOrder,
      <<"O-", "O+", "AB-", "AB+", "B-", "B+", "A-", "A+">> }

\* limit=None; no negative limit is among the inputs
NoLimit == -1
Limits == {NoLimit, 1, 2}

----------------------------------------------------------------------------
(* Results and errors *)

Ok(v) == [ok |-> TRUE, value |-> v]
MatchingServiceError(msg) == [ok |-> FALSE, error |-> "MatchingServiceError", message |-> msg]

Idle == [op |-> "idle"]
NoResult == [ok |-> TRUE, value |-> "none"]

----------------------------------------------------------------------------
(* Sequences *)

Reverse(s) == [i \in 1..Len(s) |-> s[Len(s) + 1 - i]]

RECURSIVE Concat(_)
Concat(ss) == IF ss = <<>> THEN <<>> ELSE Head(ss) \o Concat(Tail(ss))

\* Python's s[:k]
Slice(s, k) ==
    IF k >= 0
    THEN SubSeq(s, 1, IF k < Len(s) THEN k ELSE Len(s))
    ELSE SubSeq(s, 1, IF Len(s) + k > 0 THEN Len(s) + k ELSE 0)

\* Python's tuple comparison a < b, for tuples of integers of one length
TupleLess(a, b) ==
    \E i \in 1..Len(a) : a[i] < b[i] /\ \A j \in 1..(i - 1) : a[j] = b[j]

\* list.sort(key=..., reverse=True) on a list of [key, item] pairs: descending
\* by key, and stable (equal keys stay in their original order)
InsertDesc(s, x) ==
    LET after == {i \in 1..Len(s) : TupleLess(s[i].key, x.key)}
        p == IF after = {} THEN Len(s) + 1
             ELSE CHOOSE i \in after : \A j \in after : i <= j
    IN SubSeq(s, 1, p - 1) \o <<x>> \o SubSeq(s, p, Len(s))

\* mutant: the list is left in store order
SortDescSkipped(s) == s

RECURSIVE SortDesc(_)
SortDesc(s) ==
    IF s = <<>> THEN <<>>
    ELSE InsertDesc(SortDesc(SubSeq(s, 1, Len(s) - 1)), s[Len(s)])

\* str.lower() / SQL LOWER() on the city strings of the model
LowerCase == ("Delhi" :> "delhi") @@ ("delhi" :> "delhi") @@ ("Mumbai" :> "mumbai")
lower(s) == IF s \in DOMAIN LowerCase THEN LowerCase[s] ELSE s

----------------------------------------------------------------------------
(* Compatibility model *)

\* mutant: an Rh-positive donor group in the set of an Rh-negative recipient
compatibility_map_rh_slip ==
    ("A+" :> {"A+", "A-", "O+", "O-"}) @@
    ("A-" :> {"A-", "O-", "O+"}) @@
    ("B+" :> {"B+", "B-", "O+", "O-"}) @@
    ("B-" :> {"B-", "O-"}) @@
    ("AB+" :> {"A+", "A-", "B+", "B-", "AB+", "AB-", "O+", "O-"}) @@
    ("AB-" :> {"A-", "B-", "AB-", "O-"}) @@
    ("O+" :> {"O+", "O-"}) @@
    ("O-" :> {"O-"})

compatibility_map ==
    ("A+" :> {"A+", "A-", "O+", "O-"}) @@
    ("A-" :> {"A-", "O-"}) @@
    ("B+" :> {"B+", "B-", "O+", "O-"}) @@
    ("B-" :> {"B-", "O-"}) @@
    ("AB+" :> {"A+", "A-", "B+", "B-", "AB+", "AB-", "O+", "O-"}) @@
    ("AB-" :> {"A-", "B-", "AB-", "O-"}) @@
    ("O+" :> {"O+", "O-"}) @@
    ("O-" :> {"O-"})

\* mutant: an unknown blood group has no compatible group (dict.get with a default)
get_compatible_blood_groups_unknown_is_empty(recipient_blood_group) ==
    IF recipient_blood_group \notin DOMAIN compatibility_map
    THEN Ok({})
    ELSE Ok(compatibility_map[recipient_blood_group])

\* the MatchingServiceError raised in the try block is caught and raised anew
get_compatible_blood_groups(recipient_blood_group) ==
    IF recipient_blood_group \notin DOMAIN compatibility_map
    THEN MatchingServiceError("Failed to get compatible blood groups: Invalid blood group")
    ELSE Ok(compatibility_map[recipient_blood_group])

\* mutant: donor and recipient exchanged
is_blood_compatible_swapped(donor_blood_group, recipient_blood_group) ==
    LET compatible_groups == get_compatible_blood_groups(donor_blood_group)
    IN IF ~compatible_groups.ok
       THEN MatchingServiceError("Failed to check blood compatibility")
       ELSE Ok(recipient_blood_group \in compatible_groups.value)

\* mutant: only the recipient's own group is accepted
is_blood_compatible_exact_only(donor_blood_group, recipient_blood_group) ==
    LET compatible_groups == get_compatible_blood_groups(recipient_blood_group)
    IN IF ~compatible_groups.ok
       THEN MatchingServiceError("Failed to check blood compatibility")
       ELSE Ok(donor_blood_group = recipient_blood_group)

is_blood_compatible(donor_blood_group, recipient_blood_group) ==
    LET compatible_groups == get_compatible_blood_groups(recipient_blood_group)
    IN IF ~compatible_groups.ok
       THEN MatchingServiceError("Failed to check blood compatibility")
       ELSE Ok(donor_blood_group \in compatible_groups.value)

----------------------------------------------------------------------------
(* Scorer *)

\* mutant: a Critical bonus that takes the best pair past the cap
urgency_bonus_critical_fifteen ==
    ("Critical" :> 15) @@ ("High" :> 7) @@ ("Medium" :> 4) @@ ("Low" :> 1)

urgency_bonus == ("Critical" :> 10) @@ ("High" :> 7) @@ ("Medium" :> 4) @@ ("Low" :> 1)

\* mutant: the cities are compared as written
calculate_match_score_case_sensitive(donor, blood_request, city_exact_match) ==
    LET s0 == 0
        s1 == IF is_blood_compatible(donor.blood_group, blood_request.blood_group).value
              THEN s0 + 40 ELSE s0
        s2 == IF donor.blood_group = blood_request.blood_group THEN s1 + 20 ELSE s1
        s3 == IF donor.city = blood_request.city THEN s2 + 30 ELSE s2
        s4 == s3 + (IF blood_request.urgency \in DOMAIN urgency_bonus
                    THEN urgency_bonus[blood_request.urgency] ELSE 0)
    IN IF s4 < 100 THEN s4 ELSE 100

\* mutant: a donor of the recipient's own group is held back
calculate_match_score_exact_penalty(donor, blood_request, city_exact_match) ==
    LET s0 == 0
        s1 == IF is_blood_compatible(donor.blood_group, blood_request.blood_group).value
              THEN s0 + 40 ELSE s0
        s2 == IF donor.blood_group = blood_request.blood_group THEN s1 - 20 ELSE s1
        s3 == IF lower(donor.city) = lower(blood_request.city) THEN s2 + 30 ELSE s2
        s4 == s3 + (IF blood_request.urgency \in DOMAIN urgency_bonus
                    THEN urgency_bonus[blood_request.urgency] ELSE 0)
    IN IF s4 < 100 THEN s4 ELSE 100

\* mutant: the city counts only when the search was by city
calculate_match_score_city_when_asked(donor, blood_request, city_exact_match) ==
    LET s0 == 0
        s1 == IF is_blood_compatible(donor.blood_group, blood_request.blood_group).value
              THEN s0 + 40 ELSE s0
        s2 == IF donor.blood_group = blood_request.blood_group THEN s1 + 20 ELSE s1
        s3 == IF city_exact_match /\ lower(donor.city) = lower(blood_request.city)
              THEN s2 + 30 ELSE s2
        s4 == s3 + (IF blood_request.urgency \in DOMAIN urgency_bonus
                    THEN urgency_bonus[blood_request.urgency] ELSE 0)
    IN IF s4 < 100 THEN s4 ELSE 100

\* the records scored come from the stores, whose blood groups are canonical,
\* so is_blood_compatible does not raise here
calculate_match_score(donor, blood_request, city_exact_match) ==
    LET s0 == 0
        s1 == IF is_blood_compatible(donor.blood_group, blood_request.blood_group).value
              THEN s0 + 40 ELSE s0
        s2 == IF donor.blood_group = blood_request.blood_group THEN s1 + 20 ELSE s1
        s3 == IF lower(donor.city) = lower(blood_request.city) THEN s2 + 30 ELSE s2
        s4 == s3 + (IF blood_request.urgency \in DOMAIN urgency_bonus
                    THEN urgency_bonus[blood_request.urgency] ELSE 0)
    IN IF s4 < 100 THEN s4 ELSE 100

\* the value of score at the return statement, before min(score, 100.0)
score_before_cap(donor, blood_request) ==
    LET s0 == 0
        s1 == IF is_blood_compatible(donor.blood_group, blood_request.blood_group).value
              THEN s0 + 40 ELSE s0
        s2 == IF donor.blood_group = blood_request.blood_group THEN s1 + 20 ELSE s1
        s3 == IF lower(donor.city) = lower(blood_request.city) THEN s2 + 30 ELSE s2
    IN s3 + (IF blood_request.urgency \in DOMAIN urgency_bonus
             THEN urgency_bonus[blood_request.urgency] ELSE 0)

priority_map == ("Critical" :> 4) @@ ("High" :> 3) @@ ("Medium" :> 2) @@ ("Low" :> 1)

get_urgency_priority(urgency) ==
    IF urgency \in DOMAIN priority_map THEN priority_map[urgency] ELSE 0

----------------------------------------------------------------------------
(* Donor store *)

\* None
NoRecord == [id |-> 0]

\* INSERT INTO donors; the id is AUTOINCREMENT
donor_create(store, seq, blood_group, city, contact_number) ==
    Append(store, [id |-> seq + 1, blood_group |-> blood_group, city |-> city,
                   contact_number |-> contact_number])

donor_get_by_id(store, donor_id) ==
    IF \E i \in 1..Len(store) : store[i].id = donor_id
    THEN store[CHOOSE i \in 1..Len(store) : store[i].id = donor_id]
    ELSE NoRecord

\* mutant: the blood_group condition is left out of the WHERE clause
donor_get_all_any_group(store, filters) ==
    Reverse(SelectSeq(store, LAMBDA d :
        filters.city # "" => lower(d.city) = lower(filters.city)))

\* mutant: the city condition is left out of the WHERE clause
donor_get_all_any_city(store, filters) ==
    Reverse(SelectSeq(store, LAMBDA d :
        filters.blood_group # "" => d.blood_group = filters.blood_group))

\* a filter that is absent or falsy is the empty string; ORDER BY created_at DESC;
\* no other key of filters is read
donor_get_all(store, filters) ==
    Reverse(SelectSeq(store, LAMBDA d :
        /\ (filters.blood_group # "" => d.blood_group = filters.blood_group)
        /\ (filters.city # "" => lower(d.city) = lower(filters.city))))

search_by_blood_group_and_city(store, blood_group, city) ==
    donor_get_all(store, [blood_group |-> blood_group, city |-> city])

search_by_blood_group(store, blood_group) ==
    donor_get_all(store, [blood_group |-> blood_group, city |-> ""])

\* UPDATE donors SET <the fields given> WHERE id = ?; a field that is None
\* (the empty string here) is left as it is
donor_update(store, donor_id, donor_update_data) ==
    [i \in 1..Len(store) |->
        IF store[i].id # donor_id THEN store[i]
        ELSE [id |-> store[i].id,
              blood_group |-> IF donor_update_data.blood_group # ""
                              THEN donor_update_data.blood_group ELSE store[i].blood_group,
              city |-> IF donor_update_data.city # ""
                       THEN donor_update_data.city ELSE store[i].city,
              contact_number |-> IF donor_update_data.contact_number # ""
                                 THEN donor_update_data.contact_number
                                 ELSE store[i].contact_number]]

\* DELETE FROM donors WHERE id = ?
donor_delete(store, donor_id) ==
    SelectSeq(store, LAMBDA d : d.id # donor_id)

(* Request store *)

\* AUTOINCREMENT: one more than the largest id ever given, deleted rows included
request_create(store, seq, blood_group, city, urgency) ==
    Append(store, [id |-> seq + 1, blood_group |-> blood_group, city |-> city,
                   urgency |-> urgency, status |-> "Active"])

request_get_by_id(store, request_id) ==
    IF \E i \in 1..Len(store) : store[i].id = request_id
    THEN store[CHOOSE i \in 1..Len(store) : store[i].id = request_id]
    ELSE NoRecord

request_get_all(store, filters) ==
    Reverse(SelectSeq(store, LAMBDA r :
        /\ (filters.blood_group # "" => r.blood_group = filters.blood_group)
        /\ (filters.city # "" => lower(r.city) = lower(filters.city))
        /\ (filters.urgency # "" => r.urgency = filters.urgency)
        /\ (filters.status # "" => r.status = filters.status)))

NoFilters == [blood_group |-> "", city |-> "", urgency |-> "", status |-> ""]

\* mutant: the status condition is left out
get_active_requests_any_status(store) ==
    request_get_all(store, NoFilters)

get_active_requests(store) ==
    request_get_all(store, [NoFilters EXCEPT !.status = "Active"])

get_requests_by_blood_group_and_city(store, blood_group, city) ==
    request_get_all(store, [NoFilters EXCEPT !.blood_group = blood_group, !.city = city])

\* UPDATE blood_requests SET status = 'Fulfilled' WHERE id = ?
fulfill_request(store, request_id) ==
    [i \in 1..Len(store) |->
        IF store[i].id = request_id THEN [store[i] EXCEPT !.status = "Fulfilled"]
        ELSE store[i]]

\* UPDATE blood_requests SET <the fields given> WHERE id = ?; a field that is
\* None (the empty string here) is left as it is
request_update(store, request_id, request_update_data) ==
    [i \in 1..Len(store) |->
        IF store[i].id # request_id THEN store[i]
        ELSE [id |-> store[i].id,
              blood_group |-> IF request_update_data.blood_group # ""
                              THEN request_update_data.blood_group ELSE store[i].blood_group,
              city |-> IF request_update_data.city # ""
                       THEN request_update_data.city ELSE store[i].city,
              urgency |-> IF request_update_data.urgency # ""
                          THEN request_update_data.urgency ELSE store[i].urgency,
              status |-> IF request_update_data.status # ""
                         THEN request_update_data.status ELSE store[i].status]]

\* DELETE FROM blood_requests WHERE id = ?
request_delete(store, request_id) ==
    SelectSeq(store, LAMBDA r : r.id # request_id)

----------------------------------------------------------------------------
(* Blood request service *)

BloodRequestServiceError(msg) == [ok |-> FALSE, error |-> "BloodRequestServiceError", message |-> msg]

\* what an operation does: the store it leaves and what it returns or raises
Outcome(store, res) == [store |-> store, result |-> res]

\* str.strip() on the city strings of the model
strip(s) == IF s = " " THEN "" ELSE s

\* the message of the error raised, "" if none is
validate_blood_request_creation(request_data) ==
    IF strip(request_data.city) = "" THEN "City cannot be empty" ELSE ""

create_blood_request(store, seq, request_data) ==
    LET problem == validate_blood_request_creation(request_data)
    IN IF problem # ""
       THEN Outcome(store, BloodRequestServiceError("Unexpected error: " \o problem))
       ELSE LET created == request_create(store, seq, request_data.blood_group,
                                          request_data.city, request_data.urgency)
            IN Outcome(created, Ok(created[Len(created)]))

\* mutant: the rule against reactivating a fulfilled request is missing
validate_blood_request_update_no_status_rule(request_update_data, existing_request) ==
    IF request_update_data.city # "" /\ strip(request_update_data.city) = ""
    THEN "City cannot be empty"
    ELSE ""

\* the message of the error raised, "" if none is
validate_blood_request_update(request_update_data, existing_request) ==
    IF request_update_data.city # "" /\ strip(request_update_data.city) = ""
    THEN "City cannot be empty"
    ELSE IF existing_request.status = "Fulfilled" /\ request_update_data.status = "Active"
    THEN "Cannot reactivate a fulfilled blood request"
    ELSE ""

update_blood_request(store, request_id, request_update_data) ==
    IF request_id <= 0
    THEN Outcome(store, BloodRequestServiceError(
                            "Unexpected error: Blood request ID must be a positive integer"))
    ELSE
      LET existing_request == request_get_by_id(store, request_id)
      IN IF existing_request = NoRecord THEN Outcome(store, Ok(NoRecord))
         ELSE
           LET problem == validate_blood_request_update(request_update_data, existing_request)
           IN IF problem # ""
              THEN Outcome(store, BloodRequestServiceError("Unexpected error: " \o problem))
              ELSE LET updated == request_update(store, request_id, request_update_data)
                   IN Outcome(updated, Ok(request_get_by_id(updated, request_id)))

fulfill_blood_request(store, request_id) ==
    IF request_id <= 0
    THEN Outcome(store, BloodRequestServiceError(
                            "Unexpected error: Blood request ID must be a positive integer"))
    ELSE
      LET existing_request == request_get_by_id(store, request_id)
      IN IF existing_request = NoRecord THEN Outcome(store, Ok(NoRecord))
         ELSE IF existing_request.status = "Fulfilled"
         THEN Outcome(store, BloodRequestServiceError(
                                 "Unexpected error: Blood request is already fulfilled"))
         ELSE LET updated == fulfill_request(store, request_id)
              IN Outcome(updated, Ok(request_get_by_id(updated, request_id)))

delete_blood_request(store, request_id) ==
    IF request_id <= 0
    THEN Outcome(store, BloodRequestServiceError(
                            "Unexpected error: Blood request ID must be a positive integer"))
    ELSE IF request_get_by_id(store, request_id) = NoRecord
    THEN Outcome(store, Ok(FALSE))
    ELSE Outcome(request_delete(store, request_id), Ok(TRUE))

----------------------------------------------------------------------------
(* Donor service *)

DonorServiceError(msg) == [ok |-> FALSE, error |-> "DonorServiceError", message |-> msg]

\* the message of the error raised, "" if none is
validate_donor_creation(donor_data) ==
    IF strip(donor_data.city) = "" THEN "City cannot be empty" ELSE ""

create_donor(store, seq, donor_data) ==
    LET problem == validate_donor_creation(donor_data)
    IN IF problem # ""
       THEN Outcome(store, DonorServiceError("Unexpected error: " \o problem))
       ELSE
         LET existing_donors ==
                 donor_get_all(store, [blood_group |-> "", city |-> "",
                                       contact_number |-> donor_data.contact_number])
         IN IF existing_donors # <<>>
            THEN Outcome(store, DonorServiceError(
                     "Unexpected error: Donor with contact number already exists"))
            ELSE LET created == donor_create(store, seq, donor_data.blood_group,
                                             donor_data.city, donor_data.contact_number)
                 IN Outcome(created, Ok(created[Len(created)]))

\* the message of the error raised, "" if none is
validate_donor_update(donor_update_data, existing_donor) ==
    IF donor_update_data.city # "" /\ strip(donor_update_data.city) = ""
    THEN "City cannot be empty"
    ELSE ""

----------------------------------------------------------------------------
(* Match finder *)

create_match_info(donor, blood_request, city_exact_match) ==
    [donor |-> [id |-> donor.id, blood_group |-> donor.blood_group, city |-> donor.city],
     match_score |-> calculate_match_score(donor, blood_request, city_exact_match),
     blood_compatible |-> is_blood_compatible(donor.blood_group, blood_request.blood_group).value,
     city_match |-> (lower(donor.city) = lower(blood_request.city)),
     exact_blood_match |-> (donor.blood_group = blood_request.blood_group)]

create_request_match_info(blood_request, donor, city_exact_match) ==
    [request |-> [id |-> blood_request.id, blood_group |-> blood_request.blood_group,
                  city |-> blood_request.city, urgency |-> blood_request.urgency],
     match_score |-> calculate_match_score(donor, blood_request, city_exact_match),
     urgency_priority |-> get_urgency_priority(blood_request.urgency),
     blood_compatible |-> is_blood_compatible(donor.blood_group, blood_request.blood_group).value,
     city_match |-> (lower(donor.city) = lower(blood_request.city)),
     exact_blood_match |-> (donor.blood_group = blood_request.blood_group)]

\* the items of a list of [key, item] pairs
Items(pairs) == [i \in 1..Len(pairs) |-> pairs[i].item]

\* mutant: one record more than the limit is kept
ApplyLimitOffByOne(items, limit) ==
    IF limit # NoLimit /\ limit # 0 THEN Slice(items, limit + 1) ELSE items

\* if limit: list = list[:limit]
ApplyLimit(items, limit) ==
    IF limit # NoLimit /\ limit # 0 THEN Slice(items, limit) ELSE items

DonorSortKey(x) == <<x.match_score>>

\* matching_donors.sort(key=lambda x: x['match_score'], reverse=True)
SortDonors(items) ==
    Items(SortDesc([i \in 1..Len(items) |->
                       [key |-> DonorSortKey(items[i]), item |-> items[i]]]))

\* the match records of the donors a store query returned
DonorMatches(found, blood_request, city_exact_match) ==
    [i \in 1..Len(found) |-> create_match_info(found[i], blood_request, city_exact_match)]

\* mutant: a request that is not Active matches no donor
find_matching_donors_active_only(store, blood_request, city_exact_match, limit, order) ==
    IF blood_request.status # "Active" THEN Ok(<<>>)
    ELSE
      LET groups == SelectSeq(order, LAMBDA g :
                        g \in get_compatible_blood_groups(blood_request.blood_group).value)
          found(blood_group) ==
              IF city_exact_match
              THEN search_by_blood_group_and_city(store, blood_group, blood_request.city)
              ELSE search_by_blood_group(store, blood_group)
          matching_donors ==
              Concat([k \in 1..Len(groups) |->
                         DonorMatches(found(groups[k]), blood_request, city_exact_match)])
      IN Ok(ApplyLimit(SortDonors(matching_donors), limit))

find_matching_donors(store, blood_request, city_exact_match, limit, order) ==
    LET compatible_groups == get_compatible_blood_groups(blood_request.blood_group)
    IN IF ~compatible_groups.ok
       THEN MatchingServiceError("Unexpected error: " \o compatible_groups.message)
       ELSE
         LET groups == SelectSeq(order, LAMBDA g : g \in compatible_groups.value)
             found(blood_group) ==
                 IF city_exact_match
                 THEN search_by_blood_group_and_city(store, blood_group, blood_request.city)
                 ELSE search_by_blood_group(store, blood_group)
             matching_donors ==
                 Concat([k \in 1..Len(groups) |->
                            DonorMatches(found(groups[k]), blood_request, city_exact_match)])
         IN Ok(ApplyLimit(SortDonors(matching_donors), limit))

\* mutant: the status of the request is not looked at
find_matching_donors_by_request_id_any_status(dstore, rstore, request_id, city_exact_match, limit, order) ==
    IF request_id <= 0
    THEN MatchingServiceError("Unexpected error: Blood request ID must be a positive integer")
    ELSE
      LET blood_request == request_get_by_id(rstore, request_id)
      IN IF blood_request = NoRecord
         THEN MatchingServiceError("Unexpected error: Blood request with ID not found")
         ELSE find_matching_donors(dstore, blood_request, city_exact_match, limit, order)

find_matching_donors_by_request_id(dstore, rstore, request_id, city_exact_match, limit, order) ==
    IF request_id <= 0
    THEN MatchingServiceError("Unexpected error: Blood request ID must be a positive integer")
    ELSE
      LET blood_request == request_get_by_id(rstore, request_id)
      IN IF blood_request = NoRecord
         THEN MatchingServiceError("Unexpected error: Blood request with ID not found")
         ELSE IF blood_request.status # "Active"
         THEN Ok(<<>>)
         ELSE
           LET r == find_matching_donors(dstore, blood_request, city_exact_match, limit, order)
           IN IF r.ok THEN r
              ELSE MatchingServiceError("Unexpected error: " \o r.message)

\* mutant: the match score comes first in the sort key
RequestSortKeyScoreFirst(x) == <<x.match_score, x.urgency_priority>>

RequestSortKey(x) == <<x.urgency_priority, x.match_score>>

\* matching_requests.sort(key=lambda x: (x['urgency_priority'], x['match_score']),
\* reverse=True)
SortRequests(items) ==
    Items(SortDesc([i \in 1..Len(items) |->
                       [key |-> RequestSortKey(items[i]), item |-> items[i]]]))

\* the match records of a list of requests
RequestMatches(found, donor, city_exact_match) ==
    [i \in 1..Len(found) |-> create_request_match_info(found[i], donor, city_exact_match)]

\* mutant: active_only is not applied
find_requests_for_donor_any_status(store, donor, city_exact_match, active_only, limit) ==
    LET requests0 ==
            IF city_exact_match
            THEN get_requests_by_blood_group_and_city(store, donor.blood_group, donor.city)
            ELSE SelectSeq(request_get_all(store, NoFilters), LAMBDA req :
                     is_blood_compatible(donor.blood_group, req.blood_group).value)
        matching_requests ==
            RequestMatches(
                SelectSeq(requests0, LAMBDA request :
                    is_blood_compatible(donor.blood_group, request.blood_group).value),
                donor, city_exact_match)
    IN Ok(ApplyLimit(SortRequests(matching_requests), limit))

\* mutant: with city_exact_match the requests of the city are filtered by
\* compatibility, as they are without it
find_requests_for_donor_compatible_in_city(store, donor, city_exact_match, active_only, limit) ==
    LET requests0 ==
            SelectSeq(request_get_all(store,
                          [NoFilters EXCEPT !.city = IF city_exact_match THEN donor.city ELSE ""]),
                      LAMBDA req : is_blood_compatible(donor.blood_group, req.blood_group).value)
        requests1 ==
            IF active_only
            THEN SelectSeq(requests0, LAMBDA req : req.status = "Active")
            ELSE requests0
        matching_requests ==
            RequestMatches(requests1, donor, city_exact_match)
    IN Ok(ApplyLimit(SortRequests(matching_requests), limit))

find_requests_for_donor(store, donor, city_exact_match, active_only, limit) ==
    LET requests0 ==
            IF city_exact_match
            THEN get_requests_by_blood_group_and_city(store, donor.blood_group, donor.city)
            ELSE SelectSeq(request_get_all(store, NoFilters), LAMBDA req :
                     is_blood_compatible(donor.blood_group, req.blood_group).value)
        requests1 ==
            IF active_only
            THEN SelectSeq(requests0, LAMBDA req : req.status = "Active")
            ELSE requests0
        matching_requests ==
            RequestMatches(
                SelectSeq(requests1, LAMBDA request :
                    is_blood_compatible(donor.blood_group, request.blood_group).value),
                donor, city_exact_match)
    IN Ok(ApplyLimit(SortRequests(matching_requests), limit))

find_requests_for_donor_by_id(dstore, rstore, donor_id, city_exact_match, active_only, limit) ==
    IF donor_id <= 0
    THEN MatchingServiceError("Unexpected error: Donor ID must be a positive integer")
    ELSE
      LET donor == donor_get_by_id(dstore, donor_id)
      IN IF donor = NoRecord
         THEN MatchingServiceError("Unexpected error: Donor with ID not found")
         ELSE find_requests_for_donor(rstore, donor, city_exact_match, active_only, limit)

----------------------------------------------------------------------------
(* Statistics *)

RECURSIVE TotalLength(_)
TotalLength(lists) ==
    IF lists = <<>> THEN 0 ELSE Len(Head(lists)) + TotalLength(Tail(lists))

\* the match lists of a list of requests, city_exact_match=False and no limit
MatchesOf(dstore, request_list, order) ==
    [i \in 1..Len(request_list) |->
        find_matching_donors(dstore, request_list[i], FALSE, NoLimit, order).value]

\* the non-empty lists among them
NonEmpty(lists) == SelectSeq(lists, LAMBDA matches : matches # <<>>)

\* mutant: the share is not turned into a percentage
match_rate_no_percent(requests_with_matches, total_active_requests) ==
    IF total_active_requests > 0
    THEN [num |-> requests_with_matches, den |-> total_active_requests]
    ELSE [num |-> 0, den |-> 1]

\* (requests_with_matches / total_active_requests * 100) if total_active_requests > 0
\* else 0, as the fraction num/den
match_rate(requests_with_matches, total_active_requests) ==
    IF total_active_requests > 0
    THEN [num |-> requests_with_matches * 100, den |-> total_active_requests]
    ELSE [num |-> 0, den |-> 1]

\* mutant: the donors counted for a group are those who may donate to it
blood_group_stats_compatible_donors(active_requests, all_donors) ==
    [blood_group \in DOMAIN compatibility_map |->
        [active_requests |->
             Len(SelectSeq(active_requests, LAMBDA r : r.blood_group = blood_group)),
         available_donors |->
             Len(SelectSeq(all_donors, LAMBDA d :
                     d.blood_group \in compatibility_map[blood_group]))]]

blood_group_stats(active_requests, all_donors) ==
    [blood_group \in DOMAIN compatibility_map |->
        [active_requests |->
             Len(SelectSeq(active_requests, LAMBDA r : r.blood_group = blood_group)),
         available_donors |->
             Len(SelectSeq(all_donors, LAMBDA d : d.blood_group = blood_group))]]

urgency_stats(active_requests, dstore, order) ==
    [urgency \in {"Critical", "High", "Medium", "Low"} |->
        LET urgent_requests == SelectSeq(active_requests, LAMBDA r : r.urgency = urgency)
        IN [total_requests |-> Len(urgent_requests),
            requests_with_matches |->
                Len(NonEmpty(MatchesOf(dstore, urgent_requests, order)))]]

\* last_updated, the time of the call, is left out
get_matching_statistics(dstore, rstore, order) ==
    LET active_requests == get_active_requests(rstore)
        all_donors == donor_get_all(dstore, [blood_group |-> "", city |-> ""])
        matches == NonEmpty(MatchesOf(dstore, active_requests, order))
        requests_with_matches == Len(matches)
        total_potential_matches == TotalLength(matches)
    IN Ok([total_active_requests |-> Len(active_requests),
           total_donors |-> Len(all_donors),
           requests_with_potential_matches |-> requests_with_matches,
           total_potential_matches |-> total_potential_matches,
           match_rate |-> match_rate(requests_with_matches, Len(active_requests)),
           blood_group_breakdown |-> blood_group_stats(active_requests, all_donors),
           urgency_breakdown |-> urgency_stats(active_requests, dstore, order)])

----------------------------------------------------------------------------
(* Store failures: an operation in which the store read number `failing`     *)
(* raises (0: no read fails).  A store raises DonorRepositoryError or       *)
(* BloodRequestRepositoryError with the message of the method that failed;  *)
(* the text of the database error that ends each message is left out.       *)

\* how many store reads an operation makes if none fails
find_matching_donors_reads(blood_request) ==
    Cardinality(compatibility_map[blood_request.blood_group])

find_matching_donors_by_request_id_reads(rstore, request_id) ==
    IF request_id <= 0 THEN 0
    ELSE LET blood_request == request_get_by_id(rstore, request_id)
         IN IF blood_request = NoRecord \/ blood_request.status # "Active" THEN 1
            ELSE 1 + find_matching_donors_reads(blood_request)

find_requests_for_donor_by_id_reads(dstore, donor_id) ==
    IF donor_id <= 0 THEN 0
    ELSE IF donor_get_by_id(dstore, donor_id) = NoRecord THEN 1
    ELSE 2

RECURSIVE statistics_match_reads(_)
statistics_match_reads(request_list) ==
    IF request_list = <<>> THEN 0
    ELSE find_matching_donors_reads(Head(request_list))
         + statistics_match_reads(Tail(request_list))

\* the two reads of the stores, then every active request matched twice
get_matching_statistics_reads(rstore) ==
    2 + 2 * statistics_match_reads(get_active_requests(rstore))

\* the reads made: an exception ends the operation at the read that failed
reads_made(total, failing) == IF failing \in 1..total THEN failing ELSE total

\* mutant: a failed read counts as no donor found
find_matching_donors_with_faults_swallowed(store, blood_request, city_exact_match, limit, order, failing) ==
    IF failing \in 1..find_matching_donors_reads(blood_request)
    THEN Ok(<<>>)
    ELSE find_matching_donors(store, blood_request, city_exact_match, limit, order)

\* except (DonorRepositoryError, BloodRequestRepositoryError) as e
find_matching_donors_with_faults(store, blood_request, city_exact_match, limit, order, failing) ==
    IF failing \in 1..find_matching_donors_reads(blood_request)
    THEN MatchingServiceError(
             "Failed to find matching donors: Failed to search donors: Failed to retrieve donors")
    ELSE find_matching_donors(store, blood_request, city_exact_match, limit, order)

\* the MatchingServiceError of the finder is caught by `except Exception`
find_matching_donors_by_request_id_with_faults(dstore, rstore, request_id, city_exact_match, limit, order, failing) ==
    IF request_id > 0 /\ failing = 1
    THEN MatchingServiceError(
             "Failed to find matching donors: Failed to retrieve blood request")
    ELSE IF failing \in 2..find_matching_donors_by_request_id_reads(rstore, request_id)
    THEN LET r == find_matching_donors_with_faults(dstore,
                      request_get_by_id(rstore, request_id), city_exact_match, limit, order,
                      failing - 1)
         IN IF r.ok THEN r ELSE MatchingServiceError("Unexpected error: " \o r.message)
    ELSE find_matching_donors_by_request_id(
             dstore, rstore, request_id, city_exact_match, limit, order)

find_requests_for_donor_with_faults(store, donor, city_exact_match, active_only, limit, failing) ==
    IF failing = 1
    THEN MatchingServiceError(
             IF city_exact_match
             THEN "Failed to find matching requests: Failed to retrieve blood requests: Failed to retrieve blood requests"
             ELSE "Failed to find matching requests: Failed to retrieve blood requests")
    ELSE find_requests_for_donor(store, donor, city_exact_match, active_only, limit)

find_requests_for_donor_by_id_with_faults(dstore, rstore, donor_id, city_exact_match, active_only, limit, failing) ==
    IF donor_id > 0 /\ failing = 1
    THEN MatchingServiceError("Failed to find matching requests: Failed to retrieve donor")
    ELSE IF failing \in 2..find_requests_for_donor_by_id_reads(dstore, donor_id)
    THEN LET r == find_requests_for_donor_with_faults(rstore,
                      donor_get_by_id(dstore, donor_id), city_exact_match, active_only, limit,
                      failing - 1)
         IN IF r.ok THEN r ELSE MatchingServiceError("Unexpected error: " \o r.message)
    ELSE find_requests_for_donor_by_id(
             dstore, rstore, donor_id, city_exact_match, active_only, limit)

get_matching_statistics_with_faults(dstore, rstore, order, failing) ==
    IF failing = 1
    THEN MatchingServiceError(
             "Failed to generate matching statistics: Failed to retrieve active blood requests: Failed to retrieve blood requests")
    ELSE IF failing = 2
    THEN MatchingServiceError(
             "Failed to generate matching statistics: Failed to retrieve donors")
    ELSE IF failing \in 3..get_matching_statistics_reads(rstore)
    THEN MatchingServiceError(
             "Unexpected error: Failed to find matching donors: Failed to search donors: Failed to retrieve donors")
    ELSE get_matching_statistics(dstore, rstore, order)

----------------------------------------------------------------------------
(* HTTP layer: api/matching.py *)

HttpResponse(body) == [ok |-> TRUE, status_code |-> 200, value |-> body]
HTTPException(status_code, detail) == [ok |-> FALSE, error |-> "HTTPException", status_code |-> status_code, message |-> detail]

\* the messages of the model in which str(e).lower() contains "not found"
NotFoundMessages ==
    { "Unexpected error: Blood request with ID not found",
      "Unexpected error: Donor with ID not found" }

\* except MatchingServiceError as e: 404 if "not found" in str(e).lower() else 400
MatchingErrorResponse(e) ==
    IF e.message \in NotFoundMessages
    THEN HTTPException(404, e.message)
    ELSE HTTPException(400, e.message)

\* mutant: every MatchingServiceError is answered with 400
get_matching_donors_for_request_no_404(dstore, rstore, request_id, city_exact_match, limit, order) ==
    LET matches == find_matching_donors_by_request_id(
                       dstore, rstore, request_id, city_exact_match, limit, order)
    IN IF matches.ok THEN HttpResponse(matches.value)
       ELSE HTTPException(400, matches.message)

\* GET /api/requests/{request_id}/matches
get_matching_donors_for_request(dstore, rstore, request_id, city_exact_match, limit, order) ==
    LET matches == find_matching_donors_by_request_id(
                       dstore, rstore, request_id, city_exact_match, limit, order)
    IN IF matches.ok THEN HttpResponse(matches.value)
       ELSE MatchingErrorResponse(matches)

\* GET /api/donors/{donor_id}/matches
get_matching_requests_for_donor(dstore, rstore, donor_id, city_exact_match, active_only, limit) ==
    LET matches == find_requests_for_donor_by_id(
                       dstore, rstore, donor_id, city_exact_match, active_only, limit)
    IN IF matches.ok THEN HttpResponse(matches.value)
       ELSE MatchingErrorResponse(matches)

----------------------------------------------------------------------------
(* Operations *)

IsIdle == call = Idle

\* DonorRepository.create: INSERT INTO donors; the matching engine does not
\* read the contact number
CreateDonor(groups, max) ==
    /\ IsIdle
    /\ Len(donors) < max
    /\ \E blood_group \in groups, city \in Cities :
           donors' = donor_create(donors, donorSeq, blood_group, city, "9000000001")
    /\ donorSeq' = donorSeq + 1
    /\ UNCHANGED <<requests, requestSeq, groupOrder, call, result>>

\* BloodRequestRepository.create: INSERT INTO blood_requests, status Active
CreateRequest(groups, cities, urgencies, max) ==
    /\ IsIdle
    /\ Len(requests) < max
    /\ \E blood_group \in groups, city \in cities, urgency \in urgencies :
           requests' = request_create(requests, requestSeq, blood_group, city, urgency)
    /\ requestSeq' = requestSeq + 1
    /\ UNCHANGED <<donors, donorSeq, groupOrder, call, result>>

\* BloodRequestRepository.fulfill_request on an Active request
FulfillRequest ==
    /\ IsIdle
    /\ \E i \in 1..Len(requests) :
           /\ requests[i].status = "Active"
           /\ requests' = fulfill_request(requests, requests[i].id)
    /\ UNCHANGED <<donors, donorSeq, requestSeq, groupOrder, call, result>>

GetCompatibleBloodGroups ==
    /\ IsIdle
    /\ \E recipient \in BloodGroupInputs :
           /\ call' = [op |-> "get_compatible_blood_groups", recipient |-> recipient]
           /\ result' = get_compatible_blood_groups(recipient)
    /\ UNCHANGED <<donors, donorSeq, requests, requestSeq, groupOrder>>

IsBloodCompatible ==
    /\ IsIdle
    /\ \E donor \in BloodGroupInputs, recipient \in BloodGroupInputs :
           /\ call' = [op |-> "is_blood_compatible", donor |-> donor, recipient |-> recipient]
           /\ result' = is_blood_compatible(donor, recipient)
    /\ UNCHANGED <<donors, donorSeq, requests, requestSeq, groupOrder>>

\* a donor and a request as the stores hand them out
DonorInputs == [id : {1}, blood_group : BloodGroups, city : Cities]
RequestInputs ==
    [id : {1}, blood_group : BloodGroups, city : RequestCities,
     urgency : UrgencyLevels, status : {"Active"}]

CalculateMatchScore ==
    /\ IsIdle
    /\ \E donor \in DonorInputs, blood_request \in RequestInputs, cem \in BOOLEAN :
           /\ call' = [op |-> "calculate_match_score", donor |-> donor,
                       request |-> blood_request, city_exact_match |-> cem]
           /\ result' = Ok(calculate_match_score(donor, blood_request, cem))
    /\ UNCHANGED <<donors, donorSeq, requests, requestSeq, groupOrder>>

GetUrgencyPriority ==
    /\ IsIdle
    /\ \E urgency \in UrgencyLevels :
           /\ call' = [op |-> "get_urgency_priority", urgency |-> urgency]
           /\ result' = Ok(get_urgency_priority(urgency))
    /\ UNCHANGED <<donors, donorSeq, requests, requestSeq, groupOrder>>

\* the caller passes a request it has read from the request store
FindMatchingDonors ==
    /\ IsIdle
    /\ \E i \in 1..Len(requests), cem \in BOOLEAN, limit \in Limits :
           /\ call' = [op |-> "find_matching_donors", request |-> requests[i],
                       city_exact_match |-> cem, limit |-> limit]
           /\ result' = find_matching_donors(donors, requests[i], cem, limit, groupOrder)
    /\ UNCHANGED <<donors, donorSeq, requests, requestSeq, groupOrder>>

FindMatchingDonorsByRequestId ==
    /\ IsIdle
    /\ \E request_id \in 1..(Len(requests) + 1), cem \in BOOLEAN, limit \in Limits :
           /\ call' = [op |-> "find_matching_donors_by_request_id", request_id |-> request_id,
                       city_exact_match |-> cem, limit |-> limit]
           /\ result' = find_matching_donors_by_request_id(
                            donors, requests, request_id, cem, limit, groupOrder)
    /\ UNCHANGED <<donors, donorSeq, requests, requestSeq, groupOrder>>

\* the caller passes a donor it has read from the donor store
FindRequestsForDonor ==
    /\ IsIdle
    /\ \E i \in 1..Len(donors), cem \in BOOLEAN, active_only \in BOOLEAN, limit \in Limits :
           /\ call' = [op |-> "find_requests_for_donor", donor |-> donors[i],
                       city_exact_match |-> cem, active_only |-> active_only,
                       limit |-> limit]
           /\ result' = find_requests_for_donor(requests, donors[i], cem, active_only, limit)
    /\ UNCHANGED <<donors, donorSeq, requests, requestSeq, groupOrder>>

FindRequestsForDonorById ==
    /\ IsIdle
    /\ \E donor_id \in 1..(Len(donors) + 1), cem \in BOOLEAN, active_only \in BOOLEAN,
          limit \in Limits :
           /\ call' = [op |-> "find_requests_for_donor_by_id", donor_id |-> donor_id,
                       city_exact_match |-> cem, active_only |-> active_only,
                       limit |-> limit]
           /\ result' = find_requests_for_donor_by_id(
                            donors, requests, donor_id, cem, active_only, limit)
    /\ UNCHANGED <<donors, donorSeq, requests, requestSeq, groupOrder>>

\* the fields of a BloodRequestCreate and of a BloodRequestUpdate; " " is a
\* city of white space, "" a field that is not given
RequestCreates ==
    [blood_group : RequestSideGroups, city : RequestCities \cup {" "}, urgency : StoreUrgencies]
RequestUpdates ==
    [blood_group : {"", "O-"}, city : {"", " ", "Mumbai"}, urgency : {"", "Low"},
     status : {"", "Active", "Fulfilled"}]

\* the fields of a DonorCreate
ContactNumbers == {"9000000001", "9000000002", "9000000003"}
DonorCreates ==
    [blood_group : RequestSideGroups, city : Cities \cup {" "}, contact_number : ContactNumbers]

CreateDonorService ==
    /\ IsIdle
    /\ Len(donors) < MaxDonors
    /\ \E donor_data \in DonorCreates :
           LET done == create_donor(donors, donorSeq, donor_data)
           IN /\ call' = [op |-> "create_donor", donor_data |-> donor_data]
              /\ donors' = done.store
              /\ donorSeq' = IF done.result.ok THEN donorSeq + 1 ELSE donorSeq
              /\ result' = done.result
    /\ UNCHANGED <<requests, requestSeq, groupOrder>>

\* ids from 0 to one past the largest ever given
RequestIds == 0..(requestSeq + 1)

CreateBloodRequest ==
    /\ IsIdle
    /\ requestSeq < MaxRequests
    /\ \E request_data \in RequestCreates :
           LET done == create_blood_request(requests, requestSeq, request_data)
           IN /\ call' = [op |-> "create_blood_request", request_data |-> request_data]
              /\ requests' = done.store
              /\ requestSeq' = IF done.result.ok THEN requestSeq + 1 ELSE requestSeq
              /\ result' = done.result
    /\ UNCHANGED <<donors, donorSeq, groupOrder>>

UpdateBloodRequest ==
    /\ IsIdle
    /\ \E request_id \in RequestIds, request_update_data \in RequestUpdates :
           LET done == update_blood_request(requests, request_id, request_update_data)
           IN /\ call' = [op |-> "update_blood_request", request_id |-> request_id,
                          request_update |-> request_update_data]
              /\ requests' = done.store
              /\ result' = done.result
    /\ UNCHANGED <<donors, donorSeq, requestSeq, groupOrder>>

FulfillBloodRequest ==
    /\ IsIdle
    /\ \E request_id \in RequestIds :
           LET done == fulfill_blood_request(requests, request_id)
           IN /\ call' = [op |-> "fulfill_blood_request", request_id |-> request_id]
              /\ requests' = done.store
              /\ result' = done.result
    /\ UNCHANGED <<donors, donorSeq, requestSeq, groupOrder>>

DeleteBloodRequest ==
    /\ IsIdle
    /\ \E request_id \in RequestIds :
           LET done == delete_blood_request(requests, request_id)
           IN /\ call' = [op |-> "delete_blood_request", request_id |-> request_id]
              /\ requests' = done.store
              /\ result' = done.result
    /\ UNCHANGED <<donors, donorSeq, requestSeq, groupOrder>>

GetMatchingStatistics ==
    /\ IsIdle
    /\ call' = [op |-> "get_matching_statistics"]
    /\ result' = get_matching_statistics(donors, requests, groupOrder)
    /\ UNCHANGED <<donors, donorSeq, requests, requestSeq, groupOrder>>

\* the operations of the engine with a store that may fail at any one read
FindMatchingDonorsFaulty ==
    /\ IsIdle
    /\ \E i \in 1..Len(requests), cem \in BOOLEAN :
       \E failing \in 0..find_matching_donors_reads(requests[i]) :
           /\ call' = [op |-> "find_matching_donors", request |-> requests[i],
                       city_exact_match |-> cem, limit |-> NoLimit, failing |-> failing,
                       reads |-> reads_made(find_matching_donors_reads(requests[i]), failing)]
           /\ result' = find_matching_donors_with_faults(
                            donors, requests[i], cem, NoLimit, groupOrder, failing)
    /\ UNCHANGED <<donors, donorSeq, requests, requestSeq, groupOrder>>

\* find_matching_donors_by_request_id, had it marked the request it has matched
FindMatchingDonorsByRequestIdFaultyMarking ==
    /\ IsIdle
    /\ \E request_id \in 1..(Len(requests) + 1), cem \in BOOLEAN :
       \E failing \in 0..find_matching_donors_by_request_id_reads(requests, request_id) :
           /\ call' = [op |-> "find_matching_donors_by_request_id", request_id |-> request_id,
                       city_exact_match |-> cem, limit |-> NoLimit, failing |-> failing,
                       reads |-> reads_made(
                           find_matching_donors_by_request_id_reads(requests, request_id),
                           failing)]
           /\ result' = find_matching_donors_by_request_id_with_faults(
                            donors, requests, request_id, cem, NoLimit, groupOrder, failing)
           /\ requests' = IF result'.ok THEN fulfill_request(requests, request_id)
                          ELSE requests
    /\ UNCHANGED <<donors, donorSeq, requestSeq, groupOrder>>

FindMatchingDonorsByRequestIdFaulty ==
    /\ IsIdle
    /\ \E request_id \in 1..(Len(requests) + 1), cem \in BOOLEAN :
       \E failing \in 0..find_matching_donors_by_request_id_reads(requests, request_id) :
           /\ call' = [op |-> "find_matching_donors_by_request_id", request_id |-> request_id,
                       city_exact_match |-> cem, limit |-> NoLimit, failing |-> failing,
                       reads |-> reads_made(
                           find_matching_donors_by_request_id_reads(requests, request_id),
                           failing)]
           /\ result' = find_matching_donors_by_request_id_with_faults(
                            donors, requests, request_id, cem, NoLimit, groupOrder, failing)
    /\ UNCHANGED <<donors, donorSeq, requests, requestSeq, groupOrder>>

FindRequestsForDonorFaulty ==
    /\ IsIdle
    /\ \E i \in 1..Len(donors), cem \in BOOLEAN, failing \in 0..1 :
           /\ call' = [op |-> "find_requests_for_donor", donor |-> donors[i],
                       city_exact_match |-> cem, active_only |-> TRUE, limit |-> NoLimit,
                       failing |-> failing, reads |-> reads_made(1, failing)]
           /\ result' = find_requests_for_donor_with_faults(
                            requests, donors[i], cem, TRUE, NoLimit, failing)
    /\ UNCHANGED <<donors, donorSeq, requests, requestSeq, groupOrder>>

FindRequestsForDonorByIdFaulty ==
    /\ IsIdle
    /\ \E donor_id \in 1..(Len(donors) + 1), cem \in BOOLEAN :
       \E failing \in 0..find_requests_for_donor_by_id_reads(donors, donor_id) :
           /\ call' = [op |-> "find_requests_for_donor_by_id", donor_id |-> donor_id,
                       city_exact_match |-> cem, active_only |-> TRUE, limit |-> NoLimit,
                       failing |-> failing,
                       reads |-> reads_made(
                           find_requests_for_donor_by_id_reads(donors, donor_id), failing)]
           /\ result' = find_requests_for_donor_by_id_with_faults(
                            donors, requests, donor_id, cem, TRUE, NoLimit, failing)
    /\ UNCHANGED <<donors, donorSeq, requests, requestSeq, groupOrder>>

GetMatchingStatisticsFaulty ==
    /\ IsIdle
    /\ \E failing \in 0..get_matching_statistics_reads(requests) :
           /\ call' = [op |-> "get_matching_statistics", failing |-> failing,
                       reads |-> reads_made(get_matching_statistics_reads(requests), failing)]
           /\ result' = get_matching_statistics_with_faults(
                            donors, requests, groupOrder, failing)
    /\ UNCHANGED <<donors, donorSeq, requests, requestSeq, groupOrder>>

\* the path parameter is any integer; limit is None or 1..50
GetMatchingDonorsForRequest ==
    /\ IsIdle
    /\ \E request_id \in 0..(Len(requests) + 1), cem \in BOOLEAN, limit \in Limits :
           /\ call' = [op |-> "get_matching_donors_for_request", request_id |-> request_id,
                       city_exact_match |-> cem, limit |-> limit]
           /\ result' = get_matching_donors_for_request(
                            donors, requests, request_id, cem, limit, groupOrder)
    /\ UNCHANGED <<donors, donorSeq, requests, requestSeq, groupOrder>>

GetMatchingRequestsForDonor ==
    /\ IsIdle
    /\ \E donor_id \in 0..(Len(donors) + 1), cem \in BOOLEAN, active_only \in BOOLEAN,
          limit \in Limits :
           /\ call' = [op |-> "get_matching_requests_for_donor", donor_id |-> donor_id,
                       city_exact_match |-> cem, active_only |-> active_only,
                       limit |-> limit]
           /\ result' = get_matching_requests_for_donor(
                            donors, requests, donor_id, cem, active_only, limit)
    /\ UNCHANGED <<donors, donorSeq, requests, requestSeq, groupOrder>>

\* the caller consumes the result; match records are not kept
Return ==
    /\ ~IsIdle
    /\ call' = Idle
    /\ result' = NoResult
    /\ UNCHANGED <<donors, donorSeq, requests, requestSeq, groupOrder>>

----------------------------------------------------------------------------
(* Overlapping calls *)

\* The service operations are coroutines: a call gives way to the other calls
\* at every await of a store call, and runs alone between two of them.  In the
\* specifications of overlapping calls `call` holds one frame per caller (the
\* operation, its arguments, its local variables and pc, the store call it is
\* about to issue) and `result` one result per caller.
Callers == 1..MaxCallers
NoCalls == [c \in Callers |-> Idle]
NoResults == [c \in Callers |-> NoResult]

\* the call of caller c returns res or raises it
Finish(c, frame, res) ==
    /\ call' = [call EXCEPT ![c] = [frame EXCEPT !.pc = "done"]]
    /\ result' = [result EXCEPT ![c] = res]

\* the call of caller c goes on to its next store call
Goto(c, frame) ==
    /\ call' = [call EXCEPT ![c] = frame]
    /\ result' = result

At(c, op, pc) == call[c].op = op /\ call[c].pc = pc

\* the caller takes the result; its next call may start
ReturnToCaller(c) ==
    /\ call[c] # Idle
    /\ call[c].pc = "done"
    /\ call' = [call EXCEPT ![c] = Idle]
    /\ result' = [result EXCEPT ![c] = NoResult]
    /\ UNCHANGED <<donors, donorSeq, requests, requestSeq, groupOrder>>

\* the requests and the updates of the overlapping calls
OverlapRequestCreates == [blood_group : {"O-"}, city : {"Delhi"}, urgency : {"Low"}]
OverlapRequestUpdates ==
    [blood_group : {""}, city : {"", "Mumbai"}, urgency : {""},
     status : {"", "Active", "Fulfilled"}]
FulfilledUpdate == [blood_group |-> "", city |-> "", urgency |-> "", status |-> "Fulfilled"]

\* create_blood_request issues one store call, the INSERT
CallCreateBloodRequest(c, creates) ==
    /\ call[c] = Idle
    /\ requestSeq < MaxOverlapRecords
    /\ \E request_data \in creates :
           LET done == create_blood_request(requests, requestSeq, request_data)
           IN /\ requests' = done.store
              /\ requestSeq' = IF done.result.ok THEN requestSeq + 1 ELSE requestSeq
              /\ Finish(c, [op |-> "create_blood_request", request_data |-> request_data,
                            pc |-> "done"], done.result)
    /\ UNCHANGED <<donors, donorSeq, groupOrder>>

\* update_blood_request up to its first store call
StartUpdateBloodRequest(c, updates) ==
    /\ call[c] = Idle
    /\ \E request_id \in RequestIds, request_update_data \in updates :
           LET frame == [op |-> "update_blood_request", request_id |-> request_id,
                         request_update |-> request_update_data, pc |-> "get_by_id"]
           IN IF request_id <= 0
              THEN Finish(c, frame, BloodRequestServiceError(
                       "Unexpected error: Blood request ID must be a positive integer"))
              ELSE Goto(c, frame)
    /\ UNCHANGED <<donors, donorSeq, requests, requestSeq, groupOrder>>

\* existing_request = await get_by_id(request_id), then the validation
\* against the record read
UpdateBloodRequestGetById(c) ==
    /\ At(c, "update_blood_request", "get_by_id")
    /\ LET existing_request == request_get_by_id(requests, call[c].request_id)
           problem == validate_blood_request_update(call[c].request_update, existing_request)
       IN IF existing_request = NoRecord THEN Finish(c, call[c], Ok(NoRecord))
          ELSE IF problem # ""
          THEN Finish(c, call[c], BloodRequestServiceError("Unexpected error: " \o problem))
          ELSE Goto(c, [call[c] EXCEPT !.pc = "update.get_by_id"])
    /\ UNCHANGED <<donors, donorSeq, requests, requestSeq, groupOrder>>

\* fulfill_blood_request up to its first store call
StartFulfillBloodRequest(c) ==
    /\ call[c] = Idle
    /\ \E request_id \in RequestIds :
           LET frame == [op |-> "fulfill_blood_request", request_id |-> request_id,
                         request_update |-> FulfilledUpdate, pc |-> "get_by_id"]
           IN IF request_id <= 0
              THEN Finish(c, frame, BloodRequestServiceError(
                       "Unexpected error: Blood request ID must be a positive integer"))
              ELSE Goto(c, frame)
    /\ UNCHANGED <<donors, donorSeq, requests, requestSeq, groupOrder>>

\* existing_request = await get_by_id(request_id), then the status check
FulfillBloodRequestGetById(c) ==
    /\ At(c, "fulfill_blood_request", "get_by_id")
    /\ LET existing_request == request_get_by_id(requests, call[c].request_id)
       IN IF existing_request = NoRecord THEN Finish(c, call[c], Ok(NoRecord))
          ELSE IF existing_request.status = "Fulfilled"
          THEN Finish(c, call[c], BloodRequestServiceError(
                   "Unexpected error: Blood request is already fulfilled"))
          ELSE Goto(c, [call[c] EXCEPT !.pc = "update.get_by_id"])
    /\ UNCHANGED <<donors, donorSeq, requests, requestSeq, groupOrder>>

\* the fields of an update that are given
UpdateFields(request_update_data) ==
    {f \in {"blood_group", "city", "urgency", "status"} : request_update_data[f] # ""}

\* BloodRequestRepository.update: existing_request = await self.get_by_id(...)
RepositoryUpdateGetById(c) ==
    /\ call[c] # Idle
    /\ call[c].op \in {"update_blood_request", "fulfill_blood_request"}
    /\ call[c].pc = "update.get_by_id"
    /\ LET existing_request == request_get_by_id(requests, call[c].request_id)
       IN IF existing_request = NoRecord THEN Finish(c, call[c], Ok(NoRecord))
          ELSE IF UpdateFields(call[c].request_update) = {}
          THEN Finish(c, call[c], Ok(existing_request))
          ELSE Goto(c, [call[c] EXCEPT !.pc = "update.execute"])
    /\ UNCHANGED <<donors, donorSeq, requests, requestSeq, groupOrder>>

\* BloodRequestRepository.update: the UPDATE statement and its commit
RepositoryUpdateExecute(c) ==
    /\ call[c] # Idle
    /\ call[c].op \in {"update_blood_request", "fulfill_blood_request"}
    /\ call[c].pc = "update.execute"
    /\ requests' = request_update(requests, call[c].request_id, call[c].request_update)
    /\ IF request_get_by_id(requests, call[c].request_id) # NoRecord
       THEN Goto(c, [call[c] EXCEPT !.pc = "update.reread"])
       ELSE Finish(c, call[c], Ok(NoRecord))
    /\ UNCHANGED <<donors, donorSeq, requestSeq, groupOrder>>

\* BloodRequestRepository.update: return await self.get_by_id(request_id)
RepositoryUpdateReread(c) ==
    /\ call[c] # Idle
    /\ call[c].op \in {"update_blood_request", "fulfill_blood_request"}
    /\ call[c].pc = "update.reread"
    /\ Finish(c, call[c], Ok(request_get_by_id(requests, call[c].request_id)))
    /\ UNCHANGED <<donors, donorSeq, requests, requestSeq, groupOrder>>

\* the donors and the donor updates of the overlapping calls
OverlapDonorCreates ==
    [blood_group : {"O-"}, city : {"Delhi"}, contact_number : {"9000000001", "9000000002"}]
ContactUpdates ==
    [blood_group : {""}, city : {"", " "}, contact_number : {"", "9000000001", "9000000002"}]

\* ids from 0 to one past the largest ever given
DonorIds == 0..(donorSeq + 1)

\* create_donor up to its first store call
StartCreateDonor(c, creates, max) ==
    /\ call[c] = Idle
    /\ donorSeq < max
    /\ \E donor_data \in creates :
           LET frame == [op |-> "create_donor", donor_data |-> donor_data, pc |-> "get_all"]
               problem == validate_donor_creation(donor_data)
           IN IF problem # ""
              THEN Finish(c, frame, DonorServiceError("Unexpected error: " \o problem))
              ELSE Goto(c, frame)
    /\ UNCHANGED <<donors, donorSeq, requests, requestSeq, groupOrder>>

\* existing_donors = await get_all({'contact_number': ...}), then the check
CreateDonorGetAll(c) ==
    /\ At(c, "create_donor", "get_all")
    /\ LET existing_donors ==
               donor_get_all(donors, [blood_group |-> "", city |-> "",
                                      contact_number |-> call[c].donor_data.contact_number])
       IN IF existing_donors # <<>>
          THEN Finish(c, call[c], DonorServiceError(
                   "Unexpected error: Donor with contact number already exists"))
          ELSE Goto(c, [call[c] EXCEPT !.pc = "create"])
    /\ UNCHANGED <<donors, donorSeq, requests, requestSeq, groupOrder>>

\* donor = await donor_repository.create(donor_data): the INSERT
CreateDonorInsert(c) ==
    /\ At(c, "create_donor", "create")
    /\ LET created == donor_create(donors, donorSeq, call[c].donor_data.blood_group,
                                   call[c].donor_data.city,
                                   call[c].donor_data.contact_number)
       IN /\ donors' = created
          /\ donorSeq' = donorSeq + 1
          /\ Finish(c, call[c], Ok(created[Len(created)]))
    /\ UNCHANGED <<requests, requestSeq, groupOrder>>

\* update_donor up to its first store call
StartUpdateDonor(c, updates) ==
    /\ call[c] = Idle
    /\ \E donor_id \in DonorIds, donor_update_data \in updates :
           LET frame == [op |-> "update_donor", donor_id |-> donor_id,
                         donor_update |-> donor_update_data, pc |-> "get_by_id"]
           IN IF donor_id <= 0
              THEN Finish(c, frame, DonorServiceError(
                       "Unexpected error: Donor ID must be a positive integer"))
              ELSE Goto(c, frame)
    /\ UNCHANGED <<donors, donorSeq, requests, requestSeq, groupOrder>>

\* existing_donor = await get_by_id(donor_id), then the validation
UpdateDonorGetById(c) ==
    /\ At(c, "update_donor", "get_by_id")
    /\ LET existing_donor == donor_get_by_id(donors, call[c].donor_id)
           problem == validate_donor_update(call[c].donor_update, existing_donor)
       IN IF existing_donor = NoRecord THEN Finish(c, call[c], Ok(NoRecord))
          ELSE IF problem # ""
          THEN Finish(c, call[c], DonorServiceError("Unexpected error: " \o problem))
          ELSE IF call[c].donor_update.contact_number # ""
          THEN Goto(c, [call[c] EXCEPT !.pc = "get_all"])
          ELSE Goto(c, [call[c] EXCEPT !.pc = "update.get_by_id"])
    /\ UNCHANGED <<donors, donorSeq, requests, requestSeq, groupOrder>>

\* existing_donors = await get_all(), then the search for another donor with
\* the contact number
UpdateDonorGetAll(c) ==
    /\ At(c, "update_donor", "get_all")
    /\ LET existing_donors == donor_get_all(donors, [blood_group |-> "", city |-> ""])
       IN IF \E i \in 1..Len(existing_donors) :
                 /\ existing_donors[i].contact_number = call[c].donor_update.contact_number
                 /\ existing_donors[i].id # call[c].donor_id
          THEN Finish(c, call[c], DonorServiceError(
                   "Unexpected error: Another donor with contact number already exists"))
          ELSE Goto(c, [call[c] EXCEPT !.pc = "update.get_by_id"])
    /\ UNCHANGED <<donors, donorSeq, requests, requestSeq, groupOrder>>

\* the fields of a donor update that are given
DonorUpdateFields(donor_update_data) ==
    {f \in {"blood_group", "city", "contact_number"} : donor_update_data[f] # ""}

\* DonorRepository.update: existing_donor = await self.get_by_id(donor_id)
DonorRepositoryUpdateGetById(c) ==
    /\ At(c, "update_donor", "update.get_by_id")
    /\ LET existing_donor == donor_get_by_id(donors, call[c].donor_id)
       IN IF existing_donor = NoRecord THEN Finish(c, call[c], Ok(NoRecord))
          ELSE IF DonorUpdateFields(call[c].donor_update) = {}
          THEN Finish(c, call[c], Ok(existing_donor))
          ELSE Goto(c, [call[c] EXCEPT !.pc = "update.execute"])
    /\ UNCHANGED <<donors, donorSeq, requests, requestSeq, groupOrder>>

\* DonorRepository.update: the UPDATE statement and its commit
DonorRepositoryUpdateExecute(c) ==
    /\ At(c, "update_donor", "update.execute")
    /\ donors' = donor_update(donors, call[c].donor_id, call[c].donor_update)
    /\ IF donor_get_by_id(donors, call[c].donor_id) # NoRecord
       THEN Goto(c, [call[c] EXCEPT !.pc = "update.reread"])
       ELSE Finish(c, call[c], Ok(NoRecord))
    /\ UNCHANGED <<donorSeq, requests, requestSeq, groupOrder>>

\* DonorRepository.update: return await self.get_by_id(donor_id)
DonorRepositoryUpdateReread(c) ==
    /\ At(c, "update_donor", "update.reread")
    /\ Finish(c, call[c], Ok(donor_get_by_id(donors, call[c].donor_id)))
    /\ UNCHANGED <<donors, donorSeq, requests, requestSeq, groupOrder>>

\* the requests and the donor updates of the calls that overlap a finder: a
\* request whose compatible set has two blood groups, and updates that move
\* a donor between these two
FinderRequestCreates == [blood_group : {"A-"}, city : {"Delhi"}, urgency : {"Low"}]
GroupUpdates == [blood_group : {"A-", "O-"}, city : {""}, contact_number : {""}]

\* find_matching_donors up to its first store call; the caller passes a
\* request it has read from the request store
StartFindMatchingDonors(c) ==
    /\ call[c] = Idle
    /\ \E i \in 1..Len(requests), cem \in BOOLEAN, limit \in {NoLimit, 1} :
           LET compatible_groups == get_compatible_blood_groups(requests[i].blood_group)
               frame == [op |-> "find_matching_donors", request |-> requests[i],
                         city_exact_match |-> cem, limit |-> limit, pc |-> "search",
                         groups |-> <<>>, matching_donors |-> <<>>, reads |-> 0]
           IN IF ~compatible_groups.ok
              THEN Finish(c, frame, MatchingServiceError(
                       "Unexpected error: " \o compatible_groups.message))
              ELSE Goto(c, [frame EXCEPT !.groups =
                               SelectSeq(groupOrder,
                                         LAMBDA g : g \in compatible_groups.value)])
    /\ UNCHANGED <<donors, donorSeq, requests, requestSeq, groupOrder>>

\* mutant: the loop stays at a blood group until the store returns a donor
\* of it
FindMatchingDonorsSearchUntilFound(c) ==
    /\ At(c, "find_matching_donors", "search")
    /\ LET blood_group == Head(call[c].groups)
           found == IF call[c].city_exact_match
                    THEN search_by_blood_group_and_city(donors, blood_group,
                                                        call[c].request.city)
                    ELSE search_by_blood_group(donors, blood_group)
           matching_donors ==
               call[c].matching_donors
               \o DonorMatches(found, call[c].request, call[c].city_exact_match)
           frame == [call[c] EXCEPT !.groups = IF found = <<>> THEN @ ELSE Tail(@),
                                    !.matching_donors = matching_donors,
                                    !.reads = @ + 1]
       IN IF frame.groups = <<>>
          THEN Finish(c, frame, Ok(ApplyLimit(SortDonors(matching_donors), call[c].limit)))
          ELSE Goto(c, frame)
    /\ UNCHANGED <<donors, donorSeq, requests, requestSeq, groupOrder>>

\* one turn of `for blood_group in compatible_groups`: the store call and the
\* match records of the donors it returns; after the last turn the sort and
\* the limit
FindMatchingDonorsSearch(c) ==
    /\ At(c, "find_matching_donors", "search")
    /\ LET blood_group == Head(call[c].groups)
           found == IF call[c].city_exact_match
                    THEN search_by_blood_group_and_city(donors, blood_group,
                                                        call[c].request.city)
                    ELSE search_by_blood_group(donors, blood_group)
           matching_donors ==
               call[c].matching_donors
               \o DonorMatches(found, call[c].request, call[c].city_exact_match)
           frame == [call[c] EXCEPT !.groups = Tail(call[c].groups),
                                    !.matching_donors = matching_donors,
                                    !.reads = @ + 1]
       IN IF frame.groups = <<>>
          THEN Finish(c, frame, Ok(ApplyLimit(SortDonors(matching_donors), call[c].limit)))
          ELSE Goto(c, frame)
    /\ UNCHANGED <<donors, donorSeq, requests, requestSeq, groupOrder>>

\* delete_donor up to its first store call
StartDeleteDonor(c) ==
    /\ call[c] = Idle
    /\ \E donor_id \in DonorIds :
           LET frame == [op |-> "delete_donor", donor_id |-> donor_id, pc |-> "get_by_id"]
           IN IF donor_id <= 0
              THEN Finish(c, frame, DonorServiceError(
                       "Unexpected error: Donor ID must be a positive integer"))
              ELSE Goto(c, frame)
    /\ UNCHANGED <<donors, donorSeq, requests, requestSeq, groupOrder>>

\* existing_donor = await get_by_id(donor_id)
DeleteDonorGetById(c) ==
    /\ At(c, "delete_donor", "get_by_id")
    /\ IF donor_get_by_id(donors, call[c].donor_id) = NoRecord
       THEN Finish(c, call[c], Ok(FALSE))
       ELSE Goto(c, [call[c] EXCEPT !.pc = "delete"])
    /\ UNCHANGED <<donors, donorSeq, requests, requestSeq, groupOrder>>

\* success = await donor_repository.delete(donor_id): the DELETE, rowcount > 0
DeleteDonorDelete(c) ==
    /\ At(c, "delete_donor", "delete")
    /\ donors' = donor_delete(donors, call[c].donor_id)
    /\ Finish(c, call[c], Ok(donor_get_by_id(donors, call[c].donor_id) # NoRecord))
    /\ UNCHANGED <<donorSeq, requests, requestSeq, groupOrder>>

\* the compatible blood groups of a request in the order this process
\* iterates them
CompatibleGroups(blood_request) ==
    SelectSeq(groupOrder,
              LAMBDA g : g \in get_compatible_blood_groups(blood_request.blood_group).value)

\* the requests of the per-urgency pass in the order it takes them
UrgencyPass(active_requests) ==
    Concat(<<SelectSeq(active_requests, LAMBDA r : r.urgency = "Critical"),
             SelectSeq(active_requests, LAMBDA r : r.urgency = "High"),
             SelectSeq(active_requests, LAMBDA r : r.urgency = "Medium"),
             SelectSeq(active_requests, LAMBDA r : r.urgency = "Low")>>)

\* the dictionary get_matching_statistics returns, from its local variables
StatisticsOf(frame) ==
    [total_active_requests |-> Len(frame.active_requests),
     total_donors |-> Len(frame.all_donors),
     requests_with_potential_matches |-> frame.requests_with_matches,
     total_potential_matches |-> frame.total_potential_matches,
     match_rate |-> match_rate(frame.requests_with_matches, Len(frame.active_requests)),
     blood_group_breakdown |-> blood_group_stats(frame.active_requests, frame.all_donors),
     urgency_breakdown |->
         [urgency \in {"Critical", "High", "Medium", "Low"} |->
             [total_requests |->
                  Len(SelectSeq(frame.active_requests, LAMBDA r : r.urgency = urgency)),
              requests_with_matches |-> frame.requests_with_matches_count[urgency]]]]

StartGetMatchingStatistics(c) ==
    /\ call[c] = Idle
    /\ Goto(c, [op |-> "get_matching_statistics", pc |-> "get_active_requests",
                active_requests |-> <<>>, all_donors |-> <<>>,
                pending |-> <<>>, groups |-> <<>>, matching_donors |-> <<>>, reads |-> 0,
                requests_with_matches |-> 0, total_potential_matches |-> 0,
                requests_with_matches_count |->
                    [urgency \in {"Critical", "High", "Medium", "Low"} |-> 0]])
    /\ UNCHANGED <<donors, donorSeq, requests, requestSeq, groupOrder>>

\* active_requests = await blood_request_repository.get_active_requests()
StatisticsGetActiveRequests(c) ==
    /\ At(c, "get_matching_statistics", "get_active_requests")
    /\ Goto(c, [call[c] EXCEPT !.active_requests = get_active_requests(requests),
                               !.reads = @ + 1,
                               !.pc = "get_all"])
    /\ UNCHANGED <<donors, donorSeq, requests, requestSeq, groupOrder>>

\* all_donors = await donor_repository.get_all(); with no active request
\* neither pass reads the store again
StatisticsGetAll(c) ==
    /\ At(c, "get_matching_statistics", "get_all")
    /\ LET frame == [call[c] EXCEPT
                         !.all_donors = donor_get_all(donors, [blood_group |-> "",
                                                               city |-> ""]),
                         !.pending = call[c].active_requests,
                         !.reads = @ + 1]
       IN IF frame.pending = <<>>
          THEN Finish(c, frame, Ok(StatisticsOf(frame)))
          ELSE Goto(c, [frame EXCEPT !.pc = "first_pass",
                                     !.groups = CompatibleGroups(Head(frame.pending))])
    /\ UNCHANGED <<donors, donorSeq, requests, requestSeq, groupOrder>>

\* the frame after find_matching_donors has returned matches for the request
\* at the head of the pass
Counted(frame, matches) ==
    IF frame.pc = "first_pass"
    THEN [frame EXCEPT
             !.requests_with_matches = IF matches # <<>> THEN @ + 1 ELSE @,
             !.total_potential_matches = @ + Len(matches)]
    ELSE [frame EXCEPT
             !.requests_with_matches_count[Head(frame.pending).urgency] =
                 IF matches # <<>> THEN @ + 1 ELSE @]

\* one store call of a find_matching_donors(request, city_exact_match=False)
\* of either pass; after the last store call of a request the counting, after
\* the last request of the first pass the per-urgency pass, after the last
\* request of that the return
StatisticsSearch(c) ==
    /\ call[c] # Idle
    /\ call[c].op = "get_matching_statistics"
    /\ call[c].pc \in {"first_pass", "urgency_pass"}
    /\ LET blood_request == Head(call[c].pending)
           found == search_by_blood_group(donors, Head(call[c].groups))
           matching_donors ==
               call[c].matching_donors \o DonorMatches(found, blood_request, FALSE)
           more == [call[c] EXCEPT !.groups = Tail(call[c].groups),
                                   !.matching_donors = matching_donors,
                                   !.reads = @ + 1]
           counted == [Counted(more, SortDonors(matching_donors)) EXCEPT
                          !.pending = Tail(call[c].pending),
                          !.matching_donors = <<>>]
       IN IF more.groups # <<>> THEN Goto(c, more)
          ELSE IF counted.pending # <<>>
          THEN Goto(c, [counted EXCEPT !.groups = CompatibleGroups(Head(counted.pending))])
          ELSE IF counted.pc = "first_pass"
          THEN Goto(c, [counted EXCEPT
                           !.pc = "urgency_pass",
                           !.pending = UrgencyPass(counted.active_requests),
                           !.groups = CompatibleGroups(
                                          Head(UrgencyPass(counted.active_requests)))])
          ELSE Finish(c, counted, Ok(StatisticsOf(counted)))
    /\ UNCHANGED <<donors, donorSeq, requests, requestSeq, groupOrder>>

\* find_requests_for_donor up to its store call; the caller passes a donor
\* it has read from the donor store
StartFindRequestsForDonor(c) ==
    /\ call[c] = Idle
    /\ \E i \in 1..Len(donors), cem \in BOOLEAN, active_only \in BOOLEAN :
           Goto(c, [op |-> "find_requests_for_donor", donor |-> donors[i],
                    city_exact_match |-> cem, active_only |-> active_only,
                    limit |-> NoLimit, pc |-> "get", reads |-> 0])
    /\ UNCHANGED <<donors, donorSeq, requests, requestSeq, groupOrder>>

\* the one store call of find_requests_for_donor, then the filters, the sort
\* and the limit
FindRequestsForDonorGet(c) ==
    /\ At(c, "find_requests_for_donor", "get")
    /\ Finish(c, [call[c] EXCEPT !.reads = @ + 1],
              find_requests_for_donor(requests, call[c].donor, call[c].city_exact_match,
                                      call[c].active_only, call[c].limit))
    /\ UNCHANGED <<donors, donorSeq, requests, requestSeq, groupOrder>>

\* delete_blood_request up to its first store call
StartDeleteBloodRequest(c) ==
    /\ call[c] = Idle
    /\ \E request_id \in RequestIds :
           LET frame == [op |-> "delete_blood_request", request_id |-> request_id,
                         pc |-> "get_by_id"]
           IN IF request_id <= 0
              THEN Finish(c, frame, BloodRequestServiceError(
                       "Unexpected error: Blood request ID must be a positive integer"))
              ELSE Goto(c, frame)
    /\ UNCHANGED <<donors, donorSeq, requests, requestSeq, groupOrder>>

\* existing_request = await get_by_id(request_id)
DeleteBloodRequestGetById(c) ==
    /\ At(c, "delete_blood_request", "get_by_id")
    /\ IF request_get_by_id(requests, call[c].request_id) = NoRecord
       THEN Finish(c, call[c], Ok(FALSE))
       ELSE Goto(c, [call[c] EXCEPT !.pc = "delete"])
    /\ UNCHANGED <<donors, donorSeq, requests, requestSeq, groupOrder>>

\* success = await blood_request_repository.delete(request_id): the DELETE
DeleteBloodRequestDelete(c) ==
    /\ At(c, "delete_blood_request", "delete")
    /\ requests' = request_delete(requests, call[c].request_id)
    /\ Finish(c, call[c], Ok(request_get_by_id(requests, call[c].request_id) # NoRecord))
    /\ UNCHANGED <<donors, donorSeq, requestSeq, groupOrder>>

----------------------------------------------------------------------------
(* Specifications *)

Init ==
    /\ donors = <<>>
    /\ requests = <<>>
    /\ requestSeq = 0
    /\ donorSeq = 0
    /\ groupOrder \in GroupOrders
    /\ call = Idle
    /\ result = NoResult

\* the compatibility model and the scorer, on their whole input domains
NextPure ==
    \/ GetCompatibleBloodGroups
    \/ IsBloodCompatible
    \/ CalculateMatchScore
    \/ Return

SpecPure == Init /\ [][NextPure]_vars

\* request -> donors: every donor store of up to MaxDonors donors against one
\* stored request
NextDonors ==
    \/ CreateDonor(DonorSideGroups, MaxDonors)
    \/ CreateRequest(DonorSideGroups, RequestCities, StoreUrgencies, 1)
    \/ FulfillRequest
    \/ FindMatchingDonors
    \/ FindMatchingDonorsByRequestId
    \/ Return

SpecDonors == Init /\ [][NextDonors]_vars

\* donor -> requests: every request store of up to MaxRequests requests
\* against one stored donor
NextRequests ==
    \/ CreateDonor(RequestSideGroups, 1)
    \/ CreateRequest(RequestSideGroups, RequestCities, StoreUrgencies, MaxRequests)
    \/ FulfillRequest
    \/ FindRequestsForDonor
    \/ FindRequestsForDonorById
    \/ GetUrgencyPriority
    \/ Return

\* no operation of this direction iterates a set of blood groups
InitRequests == Init /\ groupOrder = TableOrder

SpecRequests == InitRequests /\ [][NextRequests]_vars

\* both directions over stores of up to MaxRecords records in all; every
\* request is Active
NextFinders ==
    \/ (Len(donors) + Len(requests) < MaxRecords /\ CreateDonor(RequestSideGroups, MaxRecords))
    \/ (Len(donors) + Len(requests) < MaxRecords /\ CreateRequest(RequestSideGroups, RequestCities, StoreUrgencies, MaxRecords))
    \/ FindMatchingDonors
    \/ FindRequestsForDonor
    \/ Return

SpecFinders == Init /\ [][NextFinders]_vars

\* the HTTP endpoints of the two by-id lookups, over one stored donor and one
\* stored request
NextApi ==
    \/ CreateDonor(RequestSideGroups, 1)
    \/ CreateRequest(RequestSideGroups, RequestCities, StoreUrgencies, 1)
    \/ FulfillRequest
    \/ GetMatchingDonorsForRequest
    \/ GetMatchingRequestsForDonor
    \/ Return

SpecApi == Init /\ [][NextApi]_vars

\* the blood request service, one operation at a time, over up to
\* MaxRequests requests ever created
NextRequestService ==
    \/ CreateBloodRequest
    \/ UpdateBloodRequest
    \/ FulfillBloodRequest
    \/ DeleteBloodRequest
    \/ Return

SpecRequestService == InitRequests /\ [][NextRequestService]_vars

\* the donor service: donors are created through create_donor only
NextDonorService ==
    \/ CreateDonorService
    \/ Return

SpecDonorService == InitRequests /\ [][NextDonorService]_vars

\* the statistics over stores of up to MaxRecords records in all; requests of
\* one city and of every urgency
NextStatistics ==
    \/ (Len(donors) + Len(requests) < MaxRecords /\ CreateDonor(RequestSideGroups, MaxRecords))
    \/ (Len(donors) + Len(requests) < MaxRecords /\ CreateRequest(RequestSideGroups, {"Delhi"}, UrgencyLevels, MaxRecords))
    \/ FulfillRequest
    \/ GetMatchingStatistics
    \/ Return

SpecStatistics == Init /\ [][NextStatistics]_vars

\* the engine over stores that may fail: one stored donor, up to MaxRequests
\* requests
NextFaults ==
    \/ CreateDonor(RequestSideGroups, 1)
    \/ CreateRequest(RequestSideGroups, {"Delhi"}, StoreUrgencies, MaxRequests)
    \/ FulfillRequest
    \/ FindMatchingDonorsFaulty
    \/ FindMatchingDonorsByRequestIdFaulty
    \/ FindRequestsForDonorFaulty
    \/ FindRequestsForDonorByIdFaulty
    \/ GetMatchingStatisticsFaulty
    \/ Return

SpecFaults == InitRequests /\ [][NextFaults]_vars

\* every operation of the engine, with results and with errors, next to the
\* writes of the two stores
NextEngine ==
    \/ CreateDonor(RequestSideGroups, 1)
    \/ CreateRequest(RequestSideGroups, {"Delhi"}, StoreUrgencies, MaxRequests)
    \/ FulfillRequest
    \/ GetCompatibleBloodGroups
    \/ IsBloodCompatible
    \/ FindMatchingDonorsFaulty
    \/ FindMatchingDonorsByRequestIdFaulty
    \/ FindRequestsForDonorFaulty
    \/ FindRequestsForDonorByIdFaulty
    \/ GetMatchingStatisticsFaulty
    \/ Return

SpecEngine == Init /\ [][NextEngine]_vars

\* the scorer called directly and through find_matching_donors, over one
\* stored donor and one stored request
NextScores ==
    \/ CreateDonor(RequestSideGroups, 1)
    \/ CreateRequest(RequestSideGroups, RequestCities, StoreUrgencies, 1)
    \/ CalculateMatchScore
    \/ FindMatchingDonors
    \/ Return

SpecScores == Init /\ [][NextScores]_vars

\* no call in flight, the stores empty
InitOverlap ==
    /\ donors = <<>>
    /\ requests = <<>>
    /\ requestSeq = 0
    /\ donorSeq = 0
    /\ groupOrder = TableOrder
    /\ call = NoCalls
    /\ result = NoResults

\* overlapping update_blood_request and fulfill_blood_request calls on one
\* stored request
NextRequestOverlap ==
    \/ \E c \in Callers : CallCreateBloodRequest(c, OverlapRequestCreates)
    \/ \E c \in Callers : StartUpdateBloodRequest(c, OverlapRequestUpdates)
    \/ \E c \in Callers : UpdateBloodRequestGetById(c)
    \/ \E c \in Callers : StartFulfillBloodRequest(c)
    \/ \E c \in Callers : FulfillBloodRequestGetById(c)
    \/ \E c \in Callers : RepositoryUpdateGetById(c)
    \/ \E c \in Callers : RepositoryUpdateExecute(c)
    \/ \E c \in Callers : RepositoryUpdateReread(c)
    \/ \E c \in Callers : ReturnToCaller(c)

SpecRequestOverlap == InitOverlap /\ [][NextRequestOverlap]_vars

\* overlapping create_donor and update_donor calls that give contact numbers
NextDonorOverlap ==
    \/ \E c \in Callers : StartCreateDonor(c, OverlapDonorCreates, MaxDonors)
    \/ \E c \in Callers : CreateDonorGetAll(c)
    \/ \E c \in Callers : CreateDonorInsert(c)
    \/ \E c \in Callers : StartUpdateDonor(c, ContactUpdates)
    \/ \E c \in Callers : UpdateDonorGetById(c)
    \/ \E c \in Callers : UpdateDonorGetAll(c)
    \/ \E c \in Callers : DonorRepositoryUpdateGetById(c)
    \/ \E c \in Callers : DonorRepositoryUpdateExecute(c)
    \/ \E c \in Callers : DonorRepositoryUpdateReread(c)
    \/ \E c \in Callers : ReturnToCaller(c)

SpecDonorOverlap == InitOverlap /\ [][NextDonorOverlap]_vars

\* find_matching_donors while update_donor calls change blood groups
NextFinderOverlap ==
    \/ \E c \in Callers : CallCreateBloodRequest(c, FinderRequestCreates)
    \/ \E c \in Callers : StartCreateDonor(c, OverlapDonorCreates, MaxDonors)
    \/ \E c \in Callers : CreateDonorGetAll(c)
    \/ \E c \in Callers : CreateDonorInsert(c)
    \/ \E c \in Callers : StartUpdateDonor(c, GroupUpdates)
    \/ \E c \in Callers : UpdateDonorGetById(c)
    \/ \E c \in Callers : DonorRepositoryUpdateGetById(c)
    \/ \E c \in Callers : DonorRepositoryUpdateExecute(c)
    \/ \E c \in Callers : DonorRepositoryUpdateReread(c)
    \/ \E c \in Callers : StartFindMatchingDonors(c)
    \/ \E c \in Callers : FindMatchingDonorsSearch(c)
    \/ \E c \in Callers : ReturnToCaller(c)

SpecFinderOverlap == InitOverlap /\ [][NextFinderOverlap]_vars

\* get_matching_statistics while donors are created and deleted
NextStatisticsOverlap ==
    \/ \E c \in Callers : CallCreateBloodRequest(c, FinderRequestCreates)
    \/ \E c \in Callers : StartCreateDonor(c, OverlapDonorCreates, MaxDonors)
    \/ \E c \in Callers : CreateDonorGetAll(c)
    \/ \E c \in Callers : CreateDonorInsert(c)
    \/ \E c \in Callers : StartDeleteDonor(c)
    \/ \E c \in Callers : DeleteDonorGetById(c)
    \/ \E c \in Callers : DeleteDonorDelete(c)
    \/ \E c \in Callers : StartGetMatchingStatistics(c)
    \/ \E c \in Callers : StatisticsGetActiveRequests(c)
    \/ \E c \in Callers : StatisticsGetAll(c)
    \/ \E c \in Callers : StatisticsSearch(c)
    \/ \E c \in Callers : ReturnToCaller(c)

SpecStatisticsOverlap == InitOverlap /\ [][NextStatisticsOverlap]_vars

\* the finders and the statistics of one caller while another caller creates,
\* updates and deletes donors and requests
EngineCallers == {1}
Writers == {2}
TerminationDonorCreates ==
    [blood_group : {"O-"}, city : {"Delhi"}, contact_number : {"9000000001"}]
CityUpdates ==
    [blood_group : {""}, city : {"Delhi", "Mumbai"}, urgency : {""}, status : {""}]

NextTermination ==
    \/ \E c \in Writers : CallCreateBloodRequest(c, FinderRequestCreates)
    \/ \E c \in Writers : StartUpdateBloodRequest(c, CityUpdates)
    \/ \E c \in Writers : UpdateBloodRequestGetById(c)
    \/ \E c \in Writers : RepositoryUpdateGetById(c)
    \/ \E c \in Writers : RepositoryUpdateExecute(c)
    \/ \E c \in Writers : RepositoryUpdateReread(c)
    \/ \E c \in Writers : StartDeleteBloodRequest(c)
    \/ \E c \in Writers : DeleteBloodRequestGetById(c)
    \/ \E c \in Writers : DeleteBloodRequestDelete(c)
    \/ \E c \in Writers : StartCreateDonor(c, TerminationDonorCreates, MaxOverlapRecords)
    \/ \E c \in Writers : CreateDonorGetAll(c)
    \/ \E c \in Writers : CreateDonorInsert(c)
    \/ \E c \in Writers : StartUpdateDonor(c, GroupUpdates)
    \/ \E c \in Writers : UpdateDonorGetById(c)
    \/ \E c \in Writers : DonorRepositoryUpdateGetById(c)
    \/ \E c \in Writers : DonorRepositoryUpdateExecute(c)
    \/ \E c \in Writers : DonorRepositoryUpdateReread(c)
    \/ \E c \in Writers : StartDeleteDonor(c)
    \/ \E c \in Writers : DeleteDonorGetById(c)
    \/ \E c \in Writers : DeleteDonorDelete(c)
    \/ \E c \in EngineCallers : StartFindMatchingDonors(c)
    \/ \E c \in EngineCallers : FindMatchingDonorsSearch(c)
    \/ \E c \in EngineCallers : StartFindRequestsForDonor(c)
    \/ \E c \in EngineCallers : FindRequestsForDonorGet(c)
    \/ \E c \in EngineCallers : StartGetMatchingStatistics(c)
    \/ \E c \in EngineCallers : StatisticsGetActiveRequests(c)
    \/ \E c \in EngineCallers : StatisticsGetAll(c)
    \/ \E c \in EngineCallers : StatisticsSearch(c)
    \/ \E c \in Callers : ReturnToCaller(c)

\* a store call of an engine operation of caller c returns and the coroutine
\* goes on to its next store call or to its end
EngineStep(c) ==
    \/ FindMatchingDonorsSearch(c)
    \/ FindRequestsForDonorGet(c)
    \/ StatisticsGetActiveRequests(c)
    \/ StatisticsGetAll(c)
    \/ StatisticsSearch(c)

\* the engine operation of caller c is suspended at a store call: the
\* condition under which EngineStep(c) can happen, since every one of its
\* disjuncts is guarded by the pc alone and adds one to the reads of the call
AwaitsStore(c) ==
    /\ call[c] # Idle
    /\ call[c].op \in {"find_matching_donors", "find_requests_for_donor", "get_matching_statistics"}
    /\ call[c].pc # "done"

\* every store call an engine operation issues returns; the other callers
\* may go on or stop at any point. This is weak fairness of EngineStep(c),
\* written out with AwaitsStore(c) for ENABLED <<EngineStep(c)>>_vars
StoreCallsReturn ==
    \A c \in EngineCallers : []<>(~AwaitsStore(c)) \/ []<><<EngineStep(c)>>_vars

SpecTermination == InitOverlap /\ [][NextTermination]_vars /\ StoreCallsReturn

----------------------------------------------------------------------------
(* Properties *)

IsFindDonors == call.op = "find_matching_donors"
IsFindDonorsById == call.op = "find_matching_donors_by_request_id"
IsFindRequests ==
    call.op \in {"find_requests_for_donor", "find_requests_for_donor_by_id"}

\* the donor a donor -> requests call is about (NoRecord: no such donor)
CalledDonor ==
    IF call.op = "find_requests_for_donor" THEN call.donor
    ELSE donor_get_by_id(donors, call.donor_id)

\* how many records of a result list are about the donor / the request with an id
DonorRecords(list, id) == Cardinality({k \in 1..Len(list) : list[k].donor.id = id})
RequestRecords(list, id) == Cardinality({k \in 1..Len(list) : list[k].request.id = id})

\* equality of two city strings of the model up to letter case
SameCityIgnoringCase(a, b) == a = b \/ {a, b} = {"Delhi", "delhi"}

\* C1: with city_exact_match=false and no limit, find_matching_donors returns
\* exactly one record for every stored donor whose blood group is in the
\* compatible set of the request's group, whatever the donor's city, and no
\* record for any other donor.
C1_EveryCompatibleDonorOnce ==
    (IsFindDonors /\ ~call.city_exact_match /\ call.limit = NoLimit) =>
        /\ result.ok
        /\ \A i \in 1..Len(donors) :
               DonorRecords(result.value, donors[i].id) =
                   IF donors[i].blood_group \in
                          get_compatible_blood_groups(call.request.blood_group).value
                   THEN 1 ELSE 0
        /\ \A k \in 1..Len(result.value) :
               \E i \in 1..Len(donors) :
                   /\ result.value[k].donor.id = donors[i].id
                   /\ result.value[k].donor.blood_group = donors[i].blood_group
                   /\ result.value[k].donor.city = donors[i].city

\* a compatible donor of another city is returned, an incompatible one is not
C1_Witness ==
    /\ IsFindDonors /\ ~call.city_exact_match /\ call.limit = NoLimit
    /\ \E i, j \in 1..Len(donors) :
           /\ donors[i].blood_group \in compatibility_map[call.request.blood_group]
           /\ ~SameCityIgnoringCase(donors[i].city, call.request.city)
           /\ DonorRecords(result.value, donors[i].id) = 1
           /\ donors[j].blood_group \notin compatibility_map[call.request.blood_group]
           /\ DonorRecords(result.value, donors[j].id) = 0

\* ABO antigens and Rh factor of a blood group
Antigens(g) ==
    CASE g \in {"O+", "O-"} -> {}
      [] g \in {"A+", "A-"} -> {"A"}
      [] g \in {"B+", "B-"} -> {"B"}
      [] g \in {"AB+", "AB-"} -> {"A", "B"}
RhPositive(g) == g \in {"A+", "B+", "AB+", "O+"}
MayDonate(d, r) == Antigens(d) \subseteq Antigens(r) /\ (~RhPositive(d) \/ RhPositive(r))

\* C2: for the 8 blood groups, D is in get_compatible_blood_groups(R) iff
\* the ABO antigens of D are a subset of those of R and (D is Rh-negative or
\* R is Rh-positive); so every group is in its own set, O- is in every set,
\* the set of AB+ has all 8 groups and the set of O- is {O-}.
C2_CompatibilityIsAboRh ==
    (call.op = "get_compatible_blood_groups" /\ call.recipient \in BloodGroups) =>
        /\ result.ok
        /\ result.value = {d \in BloodGroups : MayDonate(d, call.recipient)}
        /\ call.recipient \in result.value
        /\ "O-" \in result.value
        /\ (call.recipient = "AB+" => Cardinality(result.value) = 8)
        /\ (call.recipient = "O-" => result.value = {"O-"})

C2_Witness ==
    /\ call.op = "get_compatible_blood_groups"
    /\ call.recipient = "A-"
    /\ result.ok
    /\ result.value = {"A-", "O-"}

ClaimedBonus(urgency) ==
    CASE urgency = "Critical" -> 10
      [] urgency = "High" -> 7
      [] urgency = "Medium" -> 4
      [] urgency = "Low" -> 1

ClaimedScore(donor, request) ==
    LET sum ==
            (IF donor.blood_group \in compatibility_map[request.blood_group] THEN 40 ELSE 0)
            + (IF donor.blood_group = request.blood_group THEN 20 ELSE 0)
            + (IF SameCityIgnoringCase(donor.city, request.city) THEN 30 ELSE 0)
            + ClaimedBonus(request.urgency)
    IN IF sum > 100 THEN 100 ELSE sum

\* C3: for canonical blood groups and the four urgencies the match score is
\* min(100, 40*[compatible] + 20*[same group] + 30*[same city ignoring case]
\* + bonus), bonus Critical=10, High=7, Medium=4, Low=1; donor O-/Delhi
\* against request A+/Delhi/Critical scores 80, donor A+/Delhi scores 100.
C3_ScoreFormula ==
    call.op = "calculate_match_score" =>
        /\ result.value = ClaimedScore(call.donor, call.request)
        /\ ( /\ call.donor.city = "Delhi"
             /\ call.request.blood_group = "A+"
             /\ call.request.city = "Delhi"
             /\ call.request.urgency = "Critical"
             => /\ call.donor.blood_group = "O-" => result.value = 80
                /\ call.donor.blood_group = "A+" => result.value = 100 )

\* the cities differ in letter case and count as the same city
C3_Witness ==
    /\ call.op = "calculate_match_score"
    /\ call.donor.blood_group = "O-" /\ call.donor.city = "delhi"
    /\ call.request.blood_group = "A+" /\ call.request.city = "Delhi"
    /\ call.request.urgency = "Critical"
    /\ result.value = 80

\* C4: the list returned by find_matching_donors is in non-increasing order
\* of match_score.
C4_DonorsByScoreDescending ==
    ((IsFindDonors \/ IsFindDonorsById) /\ result.ok) =>
        \A k \in 1..(Len(result.value) - 1) :
            result.value[k].match_score >= result.value[k + 1].match_score

\* two donors of one blood group, which the store hands out newest first, are
\* returned oldest first because the older one scores higher
C4_Witness ==
    /\ IsFindDonors
    /\ Len(result.value) = 2
    /\ result.value[1].donor.blood_group = result.value[2].donor.blood_group
    /\ result.value[1].donor.id < result.value[2].donor.id
    /\ result.value[1].match_score > result.value[2].match_score

\* C5: find_matching_donors_by_request_id returns the empty list, not an
\* error, whenever the stored request has status Fulfilled, whatever the
\* donor store, city_exact_match and limit.
C5_FulfilledRequestMatchesNothing ==
    ( /\ IsFindDonorsById
      /\ request_get_by_id(requests, call.request_id) # NoRecord
      /\ request_get_by_id(requests, call.request_id).status = "Fulfilled" )
    => result = Ok(<<>>)

\* the request is Fulfilled and a donor of its group lives in its city
C5_Witness ==
    /\ IsFindDonorsById
    /\ request_get_by_id(requests, call.request_id) # NoRecord
    /\ request_get_by_id(requests, call.request_id).status = "Fulfilled"
    /\ \E i \in 1..Len(donors) :
           /\ donors[i].blood_group = request_get_by_id(requests, call.request_id).blood_group
           /\ donors[i].city = request_get_by_id(requests, call.request_id).city
    /\ result = Ok(<<>>)

\* a stored donor that find_matching_donors returns for a request: of a
\* compatible group and, with city_exact_match, of the request's city
Qualifies(donor, request, city_exact_match) ==
    /\ donor.blood_group \in compatibility_map[request.blood_group]
    /\ city_exact_match => SameCityIgnoringCase(donor.city, request.city)

\* C6 as stated: find_matching_donors(request) returns the empty list
\* whenever request.status is not Active.
C6_NonActiveRequestMatchesNothing ==
    (IsFindDonors /\ call.request.status # "Active") => result = Ok(<<>>)

\* C6 amended: find_matching_donors(request) does not look at
\* request.status; for a request that is not Active it returns what it
\* returns for the same request with status Active, the empty list only if
\* no stored donor qualifies.
C6_FinderIgnoresStatus ==
    (IsFindDonors /\ call.request.status # "Active") =>
        /\ result.ok
        /\ result = find_matching_donors(donors, [call.request EXCEPT !.status = "Active"],
                                         call.city_exact_match, call.limit, groupOrder)
        /\ (result.value = <<>>) <=>
               ~\E i \in 1..Len(donors) :
                   Qualifies(donors[i], call.request, call.city_exact_match)

C6_Witness ==
    /\ IsFindDonors
    /\ call.request.status = "Fulfilled"
    /\ result.ok
    /\ Len(result.value) = 2

\* C7: with active_only=true no record returned by find_requests_for_donor or
\* find_requests_for_donor_by_id is about a request stored as Fulfilled.
C7_ActiveOnlyExcludesFulfilled ==
    (IsFindRequests /\ call.active_only /\ result.ok) =>
        \A k \in 1..Len(result.value) :
            request_get_by_id(requests, result.value[k].request.id).status # "Fulfilled"

\* a Fulfilled request of the donor's group and city is left out, an Active
\* one is returned
C7_Witness ==
    /\ IsFindRequests /\ call.active_only /\ result.ok
    /\ Len(result.value) = 1
    /\ \E i \in 1..Len(requests) :
           /\ requests[i].status = "Fulfilled"
           /\ requests[i].blood_group = CalledDonor.blood_group
           /\ requests[i].city = CalledDonor.city

ClaimedPriority(urgency) ==
    CASE urgency = "Critical" -> 4
      [] urgency = "High" -> 3
      [] urgency = "Medium" -> 2
      [] urgency = "Low" -> 1

\* C8: the list returned by find_requests_for_donor is ordered by
\* (urgency_priority, match_score) descending, Critical=4, High=3, Medium=2,
\* Low=1: a more urgent request precedes a less urgent one whatever the
\* scores, and requests of one urgency are in non-increasing score order.
C8_RequestsByUrgencyThenScore ==
    /\ call.op = "get_urgency_priority" => result.value = ClaimedPriority(call.urgency)
    /\ (IsFindRequests /\ result.ok) =>
        \A k \in 1..(Len(result.value) - 1) :
            LET a == result.value[k]
                b == result.value[k + 1]
            IN /\ a.urgency_priority = ClaimedPriority(a.request.urgency)
               /\ b.urgency_priority = ClaimedPriority(b.request.urgency)
               /\ \/ ClaimedPriority(a.request.urgency) > ClaimedPriority(b.request.urgency)
                  \/ /\ a.request.urgency = b.request.urgency
                     /\ a.match_score >= b.match_score

\* a Critical request precedes a Low request that scores higher
C8_Witness ==
    /\ IsFindRequests /\ result.ok
    /\ Len(result.value) = 2
    /\ result.value[1].request.urgency = "Critical"
    /\ result.value[2].request.urgency = "Low"
    /\ result.value[1].match_score < result.value[2].match_score

\* C9: with city_exact_match=true every request returned by
\* find_requests_for_donor has the donor's blood group; a stored request of
\* another group the donor may donate to, in the donor's city, is not
\* returned, although find_matching_donors with city_exact_match=true returns
\* the donor for that request.
C9_ExactCityMeansExactGroup ==
    (IsFindRequests /\ call.city_exact_match /\ result.ok) =>
        /\ \A k \in 1..Len(result.value) :
               result.value[k].request.blood_group = CalledDonor.blood_group
        /\ \A i \in 1..Len(requests) :
               ( /\ requests[i].blood_group # CalledDonor.blood_group
                 /\ CalledDonor.blood_group \in compatibility_map[requests[i].blood_group]
                 /\ requests[i].city = CalledDonor.city )
               => /\ RequestRecords(result.value, requests[i].id) = 0
                  /\ DonorRecords(
                         find_matching_donors(donors, requests[i], TRUE, NoLimit,
                                              groupOrder).value,
                         CalledDonor.id) = 1

\* an O- donor and an Active A+ request in one city
C9_Witness ==
    /\ IsFindRequests /\ call.city_exact_match /\ result.ok
    /\ ~call.active_only
    /\ CalledDonor.blood_group = "O-"
    /\ \E i \in 1..Len(requests) :
           /\ requests[i].blood_group = "A+"
           /\ requests[i].city = CalledDonor.city
           /\ requests[i].status = "Active"
           /\ RequestRecords(result.value, requests[i].id) = 0

\* C10: with city_exact_match=false, active_only=false and no limit,
\* find_requests_for_donor returns exactly one record for every stored
\* request the donor's group is compatible with, whatever its city and
\* status, and no other record.
C10_EveryCompatibleRequestOnce ==
    ( /\ IsFindRequests /\ result.ok
      /\ ~call.city_exact_match /\ ~call.active_only /\ call.limit = NoLimit )
    => /\ \A i \in 1..Len(requests) :
              RequestRecords(result.value, requests[i].id) =
                  IF CalledDonor.blood_group \in compatibility_map[requests[i].blood_group]
                  THEN 1 ELSE 0
       /\ \A k \in 1..Len(result.value) :
              \E i \in 1..Len(requests) :
                  /\ result.value[k].request.id = requests[i].id
                  /\ result.value[k].request.blood_group = requests[i].blood_group
                  /\ result.value[k].request.city = requests[i].city
                  /\ result.value[k].request.urgency = requests[i].urgency

\* a Fulfilled request of another city is returned, an incompatible request
\* is not
C10_Witness ==
    /\ IsFindRequests /\ result.ok
    /\ ~call.city_exact_match /\ ~call.active_only /\ call.limit = NoLimit
    /\ \E i, j \in 1..Len(requests) :
           /\ requests[i].status = "Fulfilled"
           /\ ~SameCityIgnoringCase(requests[i].city, CalledDonor.city)
           /\ RequestRecords(result.value, requests[i].id) = 1
           /\ CalledDonor.blood_group \notin compatibility_map[requests[j].blood_group]
           /\ RequestRecords(result.value, requests[j].id) = 0

\* C11 as stated: with city_exact_match=true every record returned by
\* find_matching_donors and by find_requests_for_donor pairs a donor and a
\* request whose city strings are equal character for character.
C11_CitiesEqualCharacterForCharacter ==
    /\ (IsFindDonors /\ call.city_exact_match /\ result.ok) =>
           \A k \in 1..Len(result.value) : result.value[k].donor.city = call.request.city
    /\ (call.op = "find_requests_for_donor" /\ call.city_exact_match /\ result.ok) =>
           \A k \in 1..Len(result.value) : result.value[k].request.city = call.donor.city

\* C11 amended: with city_exact_match=true every record returned pairs a
\* donor and a request whose city strings are equal up to letter case, and
\* without a limit every stored donor of a compatible group (every stored
\* request of the donor's group) whose city equals the other side's up to
\* letter case is returned.
C11_CitiesEqualIgnoringCase ==
    /\ (IsFindDonors /\ call.city_exact_match /\ result.ok) =>
           /\ \A k \in 1..Len(result.value) :
                  SameCityIgnoringCase(result.value[k].donor.city, call.request.city)
           /\ call.limit = NoLimit =>
                  \A i \in 1..Len(donors) :
                      ( /\ donors[i].blood_group \in compatibility_map[call.request.blood_group]
                        /\ SameCityIgnoringCase(donors[i].city, call.request.city) )
                      => DonorRecords(result.value, donors[i].id) = 1
    /\ (call.op = "find_requests_for_donor" /\ call.city_exact_match /\ result.ok) =>
           /\ \A k \in 1..Len(result.value) :
                  SameCityIgnoringCase(result.value[k].request.city, call.donor.city)
           /\ call.limit = NoLimit =>
                  \A i \in 1..Len(requests) :
                      ( /\ requests[i].blood_group = call.donor.blood_group
                        /\ SameCityIgnoringCase(requests[i].city, call.donor.city) )
                      => RequestRecords(result.value, requests[i].id) = 1

\* a donor in "delhi" is returned for a request in "Delhi", a donor of the same
\* group in "Mumbai" is not
C11_Witness ==
    /\ IsFindDonors /\ call.city_exact_match /\ result.ok
    /\ call.request.city = "Delhi"
    /\ \E i, j \in 1..Len(donors) :
           /\ donors[i].city = "delhi"
           /\ DonorRecords(result.value, donors[i].id) = 1
           /\ donors[j].city = "Mumbai"
           /\ donors[j].blood_group = donors[i].blood_group
           /\ DonorRecords(result.value, donors[j].id) = 0

\* the first min(k, Len(full)) entries of a list
FirstEntries(full, k) == SubSeq(full, 1, IF k < Len(full) THEN k ELSE Len(full))

\* the result of the call in progress, had it been made without a limit
Unlimited ==
    IF IsFindDonors
    THEN find_matching_donors(donors, call.request, call.city_exact_match, NoLimit,
                              groupOrder).value
    ELSE find_requests_for_donor(requests, call.donor, call.city_exact_match,
                                 call.active_only, NoLimit).value

\* C12: for a positive limit k the result of find_matching_donors and of
\* find_requests_for_donor is the first min(k, n) entries of the result of
\* the same call without a limit on the same stores, n being its length; no
\* dropped record has a higher sort key than a kept record.
C12_LimitKeepsTheTop ==
    ( /\ call.op \in {"find_matching_donors", "find_requests_for_donor"}
      /\ call.limit > 0 )
    => /\ result.ok
       /\ result.value = FirstEntries(Unlimited, call.limit)
       /\ \A k \in 1..Len(result.value) :
              \A d \in (Len(result.value) + 1)..Len(Unlimited) :
                  IF IsFindDonors
                  THEN Unlimited[d].match_score <= result.value[k].match_score
                  ELSE \/ Unlimited[d].urgency_priority < result.value[k].urgency_priority
                       \/ /\ Unlimited[d].urgency_priority = result.value[k].urgency_priority
                          /\ Unlimited[d].match_score <= result.value[k].match_score

\* limit 1 keeps the more urgent of two matching requests and drops the other,
\* which the store hands out first
C12_Witness ==
    /\ call.op = "find_requests_for_donor" /\ call.limit = 1 /\ result.ok
    /\ Len(Unlimited) = 2
    /\ Len(result.value) = 1
    /\ result.value[1].request.urgency = "Critical"
    /\ Unlimited[2].request.urgency = "Low"
    /\ Unlimited[2].request.id > result.value[1].request.id

\* what the service answers to the HTTP request in progress
ServiceAnswer ==
    IF call.op = "get_matching_donors_for_request"
    THEN find_matching_donors_by_request_id(donors, requests, call.request_id,
             call.city_exact_match, call.limit, groupOrder)
    ELSE find_requests_for_donor_by_id(donors, requests, call.donor_id,
             call.city_exact_match, call.active_only, call.limit)

\* the record the HTTP request in progress names does not exist
NamesNoRecord ==
    \/ /\ call.op = "get_matching_donors_for_request"
       /\ \A i \in 1..Len(requests) : requests[i].id # call.request_id
    \/ /\ call.op = "get_matching_requests_for_donor"
       /\ \A i \in 1..Len(donors) : donors[i].id # call.donor_id

CalledId ==
    IF call.op = "get_matching_donors_for_request" THEN call.request_id ELSE call.donor_id

IsNotFoundError(e) ==
    /\ ~e.ok
    /\ e.message \in {"Unexpected error: Blood request with ID not found",
                      "Unexpected error: Donor with ID not found"}

\* C13 as stated: when no stored request (donor) has the given id the by-id
\* finder fails with a not-found error, and the HTTP layer answers 404.
C13_UnknownIdIsNotFound ==
    NamesNoRecord => /\ IsNotFoundError(ServiceAnswer)
                     /\ result.status_code = 404

\* C13 amended: when no stored request (donor) has the given id and the id is
\* positive, the by-id finder fails with a not-found error and the HTTP layer
\* answers 404; for an id that is not positive it fails with "must be a
\* positive integer" and the HTTP layer answers 400.  A stored id is answered
\* with 200 and a list.
C13_UnknownPositiveIdIsNotFound ==
    /\ (NamesNoRecord /\ CalledId > 0) =>
           /\ IsNotFoundError(ServiceAnswer)
           /\ ~result.ok /\ result.status_code = 404
    /\ (NamesNoRecord /\ CalledId <= 0) =>
           /\ ~ServiceAnswer.ok /\ ~IsNotFoundError(ServiceAnswer)
           /\ ~result.ok /\ result.status_code = 400
    /\ ( /\ call.op \in {"get_matching_donors_for_request", "get_matching_requests_for_donor"}
         /\ ~NamesNoRecord )
       => /\ result.ok /\ result.status_code = 200
          /\ result.value = ServiceAnswer.value

\* a request id next to a stored one is answered with 404
C13_Witness ==
    /\ call.op = "get_matching_donors_for_request"
    /\ Len(requests) = 1 /\ Len(donors) = 1
    /\ call.request_id = 2
    /\ result.status_code = 404

\* C14: get_compatible_blood_groups fails with an invalid-blood-group error
\* for every input string that is not one of the 8 canonical values ("X+",
\* the empty string and lowercase "o+" among them), and returns a non-empty
\* set for each of the 8 canonical values.
C14_OnlyCanonicalGroupsAccepted ==
    call.op = "get_compatible_blood_groups" =>
        IF call.recipient \in {"A+", "A-", "B+", "B-", "AB+", "AB-", "O+", "O-"}
        THEN result.ok /\ result.value # {}
        ELSE /\ ~result.ok
             /\ result.error = "MatchingServiceError"
             /\ result.message = "Failed to get compatible blood groups: Invalid blood group"

\* lowercase "o+" is rejected
C14_Witness ==
    /\ call.op = "get_compatible_blood_groups"
    /\ call.recipient = "o+"
    /\ ~result.ok
    /\ result.error = "MatchingServiceError"

\* the stored status of the request with an id, "" if there is none
StoredStatus(store, id) ==
    IF request_get_by_id(store, id) = NoRecord THEN ""
    ELSE request_get_by_id(store, id).status

\* C16: over every sequence of non-overlapping create_blood_request,
\* update_blood_request, fulfill_blood_request and delete_blood_request, a
\* request whose stored status is Fulfilled is never Active again (and its id
\* is not given to a new request); update_blood_request with status=Active
\* on a Fulfilled request is rejected with an error and leaves the stored
\* record unchanged.
C16_FulfilledIsTerminal ==
    [][ /\ \A id \in 1..(requestSeq + 1) :
               StoredStatus(requests, id) = "Fulfilled" => StoredStatus(requests', id) # "Active"
        /\ \A id \in 1..requestSeq :
               StoredStatus(requests, id) = "" => StoredStatus(requests', id) = ""
        /\ \A i \in 1..Len(requests) : requests[i].id <= requestSeq
        /\ ( /\ call'.op = "update_blood_request"
             /\ call'.request_update.status = "Active"
             /\ StoredStatus(requests, call'.request_id) = "Fulfilled" )
           => /\ ~result'.ok
              /\ result'.error = "BloodRequestServiceError"
              /\ requests' = requests ]_vars

\* an update that would reactivate a Fulfilled request has been rejected, after
\* another request was deleted
C16_Witness ==
    /\ call.op = "update_blood_request"
    /\ call.request_update.status = "Active"
    /\ call.request_update.city = "Mumbai"
    /\ StoredStatus(requests, call.request_id) = "Fulfilled"
    /\ result = BloodRequestServiceError(
                    "Unexpected error: Cannot reactivate a fulfilled blood request")
    /\ Len(requests) < requestSeq

\* the stored donors other than the one create_donor has just created
OtherDonors ==
    {i \in 1..Len(donors) : ~(result.ok /\ donors[i].id = result.value.id)}

\* C17: create_donor rejects a new donor with an 'already exists' error
\* exactly when some stored donor has the same contact number; a valid donor
\* whose contact number differs from that of every stored donor is created,
\* however many donors are already stored.
C17_RejectedIffSameContactNumber ==
    (call.op = "create_donor" /\ call.donor_data.city # " ") =>
        IF \E i \in OtherDonors : donors[i].contact_number = call.donor_data.contact_number
        THEN result = DonorServiceError(
                          "Unexpected error: Donor with contact number already exists")
        ELSE /\ result.ok
             /\ \E i \in 1..Len(donors) :
                    /\ donors[i] = result.value
                    /\ donors[i].contact_number = call.donor_data.contact_number

IsStatistics == call.op = "get_matching_statistics"

\* the stored Active requests, and those among them some stored donor may
\* donate to
ActiveRequests == {i \in 1..Len(requests) : requests[i].status = "Active"}
MatchedRequests ==
    {i \in ActiveRequests :
        \E j \in 1..Len(donors) : MayDonate(donors[j].blood_group, requests[i].blood_group)}

\* C18: get_matching_statistics returns total_active_requests = number of
\* stored Active requests, total_donors = number of stored donors,
\* requests_with_potential_matches = number of Active requests for which some
\* stored donor of any city has a compatible blood group, and
\* total_potential_matches = number of (Active request, donor) pairs with
\* compatible blood groups.
C18_StatisticsTotals ==
    IsStatistics =>
        /\ result.ok
        /\ result.value.total_active_requests = Cardinality(ActiveRequests)
        /\ result.value.total_donors = Len(donors)
        /\ result.value.requests_with_potential_matches = Cardinality(MatchedRequests)
        /\ result.value.total_potential_matches =
               Cardinality({p \in ActiveRequests \X (1..Len(donors)) :
                               MayDonate(donors[p[2]].blood_group, requests[p[1]].blood_group)})

\* two Active requests, and a donor of another city who may donate to one of
\* them only
C18_Witness ==
    /\ IsStatistics /\ result.ok
    /\ result.value.total_active_requests = 2
    /\ result.value.total_donors = 1
    /\ result.value.requests_with_potential_matches = 1
    /\ result.value.total_potential_matches = 1
    /\ donors[1].city = "Mumbai"

\* C19: in every result of get_matching_statistics, match_rate is 0 and no
\* error is raised when there are no Active requests, and otherwise
\* match_rate = requests_with_potential_matches / total_active_requests * 100;
\* so requests_with_potential_matches <= total_active_requests and
\* 0 <= match_rate <= 100.  (match_rate is the fraction num/den.)
C19_MatchRate ==
    IsStatistics =>
        /\ result.ok
        /\ result.value.match_rate.den > 0
        /\ IF ActiveRequests = {}
           THEN result.value.match_rate.num = 0
           ELSE result.value.match_rate.num * result.value.total_active_requests =
                    100 * result.value.requests_with_potential_matches
                        * result.value.match_rate.den
        /\ result.value.requests_with_potential_matches <= result.value.total_active_requests
        /\ 0 <= result.value.match_rate.num
        /\ result.value.match_rate.num <= 100 * result.value.match_rate.den

\* one of two Active requests has a match: the rate is 50
C19_Witness ==
    /\ IsStatistics /\ result.ok
    /\ result.value.total_active_requests = 2
    /\ result.value.requests_with_potential_matches = 1
    /\ result.value.match_rate.num = 50 * result.value.match_rate.den

\* the sum of f[x] over the x of a finite set
RECURSIVE SumOver(_, _)
SumOver(f, S) ==
    IF S = {} THEN 0
    ELSE LET x == CHOOSE y \in S : TRUE IN f[x] + SumOver(f, S \ {x})

\* C20: in every result of get_matching_statistics, blood_group_breakdown has
\* one entry for each of the 8 blood groups and urgency_breakdown one entry
\* for each of the 4 urgency levels; the active_requests values sum to
\* total_active_requests, the available_donors values sum to total_donors,
\* and the urgency total_requests values sum to total_active_requests.
C20_BreakdownsAddUp ==
    IsStatistics =>
        LET groups == result.value.blood_group_breakdown
            urgencies == result.value.urgency_breakdown
        IN /\ DOMAIN groups = {"A+", "A-", "B+", "B-", "AB+", "AB-", "O+", "O-"}
           /\ DOMAIN urgencies = {"Low", "Medium", "High", "Critical"}
           /\ SumOver([g \in DOMAIN groups |-> groups[g].active_requests], DOMAIN groups)
                  = result.value.total_active_requests
           /\ SumOver([g \in DOMAIN groups |-> groups[g].available_donors], DOMAIN groups)
                  = result.value.total_donors
           /\ SumOver([u \in DOMAIN urgencies |-> urgencies[u].total_requests],
                      DOMAIN urgencies)
                  = result.value.total_active_requests

\* a High request that is Active, a Medium request that is Fulfilled and a
\* donor
C20_Witness ==
    /\ IsStatistics /\ result.ok
    /\ result.value.urgency_breakdown["High"].total_requests = 1
    /\ result.value.urgency_breakdown["Medium"].total_requests = 0
    /\ \E i \in 1..Len(requests) :
           requests[i].urgency = "Medium" /\ requests[i].status = "Fulfilled"
    /\ result.value.blood_group_breakdown["O-"].available_donors = 1

\* a store read of the operation in progress has failed
StoreReadFailed == ~IsIdle /\ call.failing > 0

\* C15 as stated: when a store read fails during a finder or the statistics
\* the caller receives the store's error unchanged, of the store-error kind,
\* never a partial or empty result, and the failed read is not retried.
C15_StoreErrorUnchanged ==
    StoreReadFailed =>
        /\ ~result.ok
        /\ result.error \in {"DonorRepositoryError", "BloodRequestRepositoryError"}
        /\ call.reads = call.failing

\* the messages of the store errors, and the prefixes the engine puts before one
StoreMessages ==
    { "Failed to search donors: Failed to retrieve donors",
      "Failed to retrieve donors",
      "Failed to retrieve donor",
      "Failed to retrieve blood request",
      "Failed to retrieve blood requests",
      "Failed to retrieve blood requests: Failed to retrieve blood requests",
      "Failed to retrieve active blood requests: Failed to retrieve blood requests" }
EnginePrefixes ==
    { "Failed to find matching donors: ",
      "Failed to find matching requests: ",
      "Failed to generate matching statistics: ",
      "Unexpected error: Failed to find matching donors: ",
      "Unexpected error: Failed to find matching requests: " }

\* C15 amended: when a store read fails during a finder or the statistics the
\* caller receives a MatchingServiceError whose message is the store's
\* message behind a prefix of the engine, never a partial or empty result;
\* the failed read is the last read made.
C15_StoreErrorWrapped ==
    StoreReadFailed =>
        /\ ~result.ok
        /\ result.error = "MatchingServiceError"
        /\ \E prefix \in EnginePrefixes, message \in StoreMessages :
               result.message = prefix \o message
        /\ call.reads = call.failing

\* the statistics fail at a donor read made for the second active request
C15_Witness ==
    /\ call.op = "get_matching_statistics"
    /\ Len(requests) = 2 /\ Len(donors) = 1
    /\ call.failing > 2 + find_matching_donors_reads(requests[2])
    /\ call.failing <= 2 + find_matching_donors_reads(requests[2])
                           + find_matching_donors_reads(requests[1])
    /\ ~result.ok
    /\ result.error = "MatchingServiceError"

----------------------------------------------------------------------------
\* the operations of MatchingService
EngineOperations ==
    {"get_compatible_blood_groups", "is_blood_compatible", "find_matching_donors",
     "find_matching_donors_by_request_id", "find_requests_for_donor",
     "find_requests_for_donor_by_id", "get_matching_statistics"}

\* C21: every matching-engine operation leaves the donor store and the request
\* store (rows and id sequences) as they were, whether it returns a result or
\* an error.  The compatibility table is the definition compatibility_map:
\* the constructor builds it and no operation assigns it.
C21_EngineLeavesStoresUnchanged ==
    [][ (IsIdle /\ call'.op \in EngineOperations)
        => /\ donors' = donors
           /\ requests' = requests
           /\ requestSeq' = requestSeq
           /\ donorSeq' = donorSeq ]_vars

\* a by-id finder has returned matches for a stored Active request, and the
\* request is still Active
C21_Witness ==
    /\ call.op = "find_matching_donors_by_request_id"
    /\ result.ok
    /\ result.value # <<>>
    /\ Len(requests) = 2
    /\ StoredStatus(requests, call.request_id) = "Active"

\* the statistics have failed at a store read over stores that hold records
C21_WitnessError ==
    /\ call.op = "get_matching_statistics"
    /\ ~result.ok
    /\ Len(donors) = 1
    /\ Len(requests) = 2

----------------------------------------------------------------------------
IsScore == call.op = "calculate_match_score"

\* C22: for every donor and request with canonical blood groups and a valid
\* urgency the match score is between 0 and 100, the sum of the points before
\* the cap is at most 100, so the cap leaves it as it is, and the score is 100
\* exactly for a pair of the same blood group and the same city (ignoring
\* case) whose request is Critical.
C22_ScoreWithinBounds ==
    IsScore =>
        /\ 0 <= result.value /\ result.value <= 100
        /\ score_before_cap(call.donor, call.request) <= 100
        /\ result.value = score_before_cap(call.donor, call.request)
        /\ result.value = 100
           <=> /\ call.donor.blood_group = call.request.blood_group
               /\ SameCityIgnoringCase(call.donor.city, call.request.city)
               /\ call.request.urgency = "Critical"

\* the best pair: same group, same city, Critical
C22_Witness ==
    /\ IsScore
    /\ call.donor.blood_group = "B-" /\ call.request.blood_group = "B-"
    /\ call.donor.city = "Mumbai" /\ call.request.city = "Mumbai"
    /\ call.request.urgency = "Critical"
    /\ result.value = 100

----------------------------------------------------------------------------
\* the matching conditions a pair satisfies
Conditions(donor, request) ==
    (IF MayDonate(donor.blood_group, request.blood_group) THEN {"blood compatible"} ELSE {})
    \cup (IF donor.blood_group = request.blood_group THEN {"exact blood group"} ELSE {})
    \cup (IF SameCityIgnoringCase(donor.city, request.city) THEN {"city"} ELSE {})

\* C23: for any two donor/request pairs whose requests have the same urgency,
\* if the conditions among {blood compatible, exact blood group, city match}
\* that the first pair satisfies are a subset of those the second satisfies,
\* the score of the first pair is at most the score of the second.
C23_ScoreMonotonic ==
    IsScore =>
        \A donor \in DonorInputs, request \in RequestInputs :
            ( /\ request.urgency = call.request.urgency
              /\ Conditions(call.donor, call.request) \subseteq Conditions(donor, request) )
            => result.value <= calculate_match_score(donor, request, call.city_exact_match)

\* a pair that is compatible only, below which lie the pairs with no
\* condition and above which lie the pairs with all three
C23_Witness ==
    /\ IsScore
    /\ call.donor.blood_group = "O-" /\ call.request.blood_group = "AB+"
    /\ call.donor.city = "Delhi" /\ call.request.city = "Mumbai"
    /\ call.request.urgency = "High"
    /\ Conditions(call.donor, call.request) = {"blood compatible"}
    /\ result.value = 47

----------------------------------------------------------------------------
\* what find_matching_donors returns for the same request, store and
\* iteration order when called with the other value of city_exact_match
OtherFlagMatches ==
    find_matching_donors(donors, call.request, ~call.city_exact_match, NoLimit,
                         groupOrder).value

\* C24: _calculate_match_score(donor, request, true) equals
\* _calculate_match_score(donor, request, false) for every donor and request,
\* and a donor that find_matching_donors returns with city_exact_match=true
\* and with city_exact_match=false has the same match_score in both results.
C24_ScoreIgnoresCityFlag ==
    /\ IsScore =>
           result.value
           = calculate_match_score(call.donor, call.request, ~call.city_exact_match)
    /\ IsFindDonors =>
           \A i \in 1..Len(result.value), j \in 1..Len(OtherFlagMatches) :
               OtherFlagMatches[j].donor.id = result.value[i].donor.id
               => OtherFlagMatches[j].match_score = result.value[i].match_score

\* a donor of the request's city found by the search without the city filter,
\* who is also in the result of the search by city
C24_Witness ==
    /\ IsFindDonors
    /\ ~call.city_exact_match
    /\ Len(result.value) = 1
    /\ result.value[1].city_match
    /\ Len(OtherFlagMatches) = 1
    /\ OtherFlagMatches[1].donor.id = result.value[1].donor.id

----------------------------------------------------------------------------
\* C25: for all canonical donor groups D and recipient groups R,
\* is_blood_compatible(D, R) is true if and only if D is in
\* get_compatible_blood_groups(R).
C25_CompatibleIffInCompatibleSet ==
    ( /\ call.op = "is_blood_compatible"
      /\ call.donor \in BloodGroups
      /\ call.recipient \in BloodGroups )
    => /\ result.ok
       /\ get_compatible_blood_groups(call.recipient).ok
       /\ result.value = TRUE
          <=> call.donor \in get_compatible_blood_groups(call.recipient).value

\* a donor of another group than the recipient's, in the recipient's set
C25_Witness ==
    /\ call.op = "is_blood_compatible"
    /\ call.donor = "B-" /\ call.recipient = "AB-"
    /\ result = Ok(TRUE)
    /\ call.donor \in get_compatible_blood_groups(call.recipient).value

----------------------------------------------------------------------------
\* C26: for every interleaving of the store reads and writes of overlapping
\* update_blood_request and fulfill_blood_request calls on the same request,
\* a request whose stored status is Fulfilled never has the stored status
\* Active afterwards.
C26_FulfilledIsTerminalWhenOverlapping ==
    [][ \A id \in 1..requestSeq :
            StoredStatus(requests, id) = "Fulfilled"
            => StoredStatus(requests', id) # "Active" ]_vars

----------------------------------------------------------------------------
\* C27: in every reachable state no two stored donors have the same contact
\* number, for every interleaving of the store reads and writes of
\* overlapping create_donor and update_donor calls.
C27_ContactNumbersUnique ==
    \A i, j \in 1..Len(donors) :
        i # j => donors[i].contact_number # donors[j].contact_number

----------------------------------------------------------------------------
\* the callers whose call has returned a list
Returned(op) ==
    {c \in Callers : call[c] # Idle /\ call[c].op = op /\ call[c].pc = "done" /\ result[c].ok}

\* C28: in every result of find_matching_donors each donor id occurs at most
\* once, also when update_donor changes a donor's blood group while the
\* finder is between two of its per-blood-group store reads.
C28_EveryDonorOnceWhenOverlapping ==
    \A c \in Returned("find_matching_donors") :
        \A i, j \in 1..Len(result[c].value) :
            i # j => result[c].value[i].donor.id # result[c].value[j].donor.id

----------------------------------------------------------------------------
\* C29: in every result of get_matching_statistics the sum over the 4 urgency
\* levels of urgency_breakdown[u].requests_with_matches equals
\* requests_with_potential_matches, also when other callers create or delete
\* donors while the computation is between two of its store reads.
C29_UrgencyMatchesAddUpWhenOverlapping ==
    \A c \in Returned("get_matching_statistics") :
        SumOver([u \in UrgencyLevels |->
                    result[c].value.urgency_breakdown[u].requests_with_matches],
                UrgencyLevels)
        = result[c].value.requests_with_potential_matches

----------------------------------------------------------------------------
\* the operations C30 is about
LoopingOperations ==
    {"find_matching_donors", "find_requests_for_donor", "get_matching_statistics"}

InFlight(c) ==
    call[c] # Idle /\ call[c].op \in LoopingOperations /\ call[c].pc # "done"
HasReturned(c) ==
    call[c] # Idle /\ call[c].op \in LoopingOperations /\ call[c].pc = "done"

\* the sizes of the compatible sets of a list of requests, added up
RECURSIVE CompatibleSetSizes(_)
CompatibleSetSizes(request_list) ==
    IF request_list = <<>> THEN 0
    ELSE Cardinality({d \in BloodGroups : MayDonate(d, Head(request_list).blood_group)})
         + CompatibleSetSizes(Tail(request_list))

\* the largest number of store reads of an invocation, from what it fetched
ReadBound(frame) ==
    CASE frame.op = "find_matching_donors" -> CompatibleSetSizes(<<frame.request>>)
      [] frame.op = "find_requests_for_donor" -> 1
      [] frame.op = "get_matching_statistics" ->
             2 + 2 * CompatibleSetSizes(frame.active_requests)

\* C30: every invocation of find_matching_donors, find_requests_for_donor and
\* get_matching_statistics eventually returns a result or an error, provided
\* every store call it issues returns, also while other callers keep
\* creating, updating and deleting donors and requests; the number of store
\* reads of one invocation is at most the sizes of the compatible sets and of
\* the request list it fetched allow.
C30_EngineCallsReturn ==
    /\ [](\A c \in EngineCallers :
              (call[c] # Idle /\ call[c].op \in LoopingOperations)
              => call[c].reads <= ReadBound(call[c]))
    /\ \A c \in EngineCallers : InFlight(c) ~> HasReturned(c)

\* the statistics have returned after all the store reads one active request
\* allows, while an update_donor of another caller is between two store calls
C30_Witness ==
    \E c, d \in Callers :
        /\ HasReturned(c)
        /\ call[c].op = "get_matching_statistics"
        /\ Len(call[c].active_requests) = 1
        /\ call[c].reads = 6
        /\ call[d] # Idle
        /\ call[d].op = "update_donor"
        /\ call[d].pc = "update.reread"
====
